---- MODULE Spec2Model ----
(***************************************************************************)
(* State-machine model of GlopBuilder (libs/hwui/GlopBuilder.cpp): the     *)
(* staged builder that fills one draw descriptor (Glop) and the shader     *)
(* variant descriptor (ProgramDescription) for one draw call.              *)
(*                                                                         *)
(* Conventions                                                             *)
(*  - a float is modelled as an exact rational <<n, d>> in lowest terms    *)
(*    with d > 0 (no rounding error; every value used here is a small      *)
(*    dyadic or a multiple of 1/255);                                      *)
(*  - a pointer that is only stored is a token (nullptr: "nullptr"); a     *)
(*    pointer whose target the builder reads (Texture, SkShader, SkPaint,  *)
(*    SkColorFilter, UvMapper) is NULL (<<>>) or Ptr(record), the record   *)
(*    holding the properties the builder queries;                          *)
(*  - LOG_ALWAYS_FATAL aborts the process.  The diagnostic is kept in      *)
(*    fatal, the builder takes no further step, and the process image      *)
(*    (descriptor, shader description, shader) is gone: it is modelled as  *)
(*    reset to its zero value.  Claims about an operation that aborts are  *)
(*    stated on the step that aborts, from the state before it.            *)
(***************************************************************************)
EXTENDS Integers, Sequences, FiniteSets, TLC

VARIABLES
    mStageFlags,   \* GlopBuilder::mStageFlags, as a set of stage flags
    mOutGlop,      \* *GlopBuilder::mOutGlop, the draw descriptor
    mDescription,  \* GlopBuilder::mDescription, the shader-variant descriptor
    mShader,       \* GlopBuilder::mShader
    fatal,         \* NoFatal, or the diagnostic of the LOG_ALWAYS_FATAL that aborted
    calls,         \* per stage (and "Build"): the operations invoked so far
    setFillCall,   \* the arguments of the last call of setFill, or NoCall
    modelViewCall, \* the arguments of the model-view operation that ran
    hasFramebufferFetch  \* mCaches.extensions().hasFramebufferFetch()

vars == <<mStageFlags, mOutGlop, mDescription, mShader, fatal, calls,
          setFillCall, modelViewCall, hasFramebufferFetch>>

----------------------------------------------------------------------------
(* Bounds of the model *)

\* invocations of the operations of one stage (and of build) that are explored
MaxCalls == 2

----------------------------------------------------------------------------
(* Exact rationals standing for floats *)

RECURSIVE GCD(_, _)
GCD(a, b) == IF b = 0 THEN a ELSE GCD(b, a % b)

Abs(x) == IF x < 0 THEN -x ELSE x

Rat(n, d) ==
    LET s == IF d < 0 THEN -1 ELSE 1
        g == GCD(Abs(n), Abs(d))
    IN  <<(s * n) \div g, (s * d) \div g>>

RInt(i) == <<i, 1>>
RZero == RInt(0)
ROne == RInt(1)
RHalf == Rat(1, 2)
RAdd(x, y) == Rat(x[1] * y[2] + y[1] * x[2], x[2] * y[2])
RSub(x, y) == Rat(x[1] * y[2] - y[1] * x[2], x[2] * y[2])
RMul(x, y) == Rat(x[1] * y[1], x[2] * y[2])
RDiv(x, y) == Rat(x[1] * y[2], x[2] * y[1])
RLess(x, y) == x[1] * y[2] < y[1] * x[2]
RMin(x, y) == IF RLess(y, x) THEN y ELSE x
RMax(x, y) == IF RLess(x, y) THEN y ELSE x
\* (int) floorf(x)
RFloor(x) == RInt(x[1] \div x[2])

----------------------------------------------------------------------------
(* Stage flags *)

kMeshStage == "Mesh"
kFillStage == "Fill"
kTransformStage == "Transform"
kModelViewStage == "ModelView"
kRoundRectClipStage == "RoundRectClip"
kInitialStage == {}
Stages == {kMeshStage, kFillStage, kTransformStage, kModelViewStage,
           kRoundRectClipStage}
\* the mask build() requires
kAllStages == {kMeshStage, kFillStage, kTransformStage, kModelViewStage}

\* a pointer whose target is never read is a token; the null token
nullptr == "nullptr"
\* a pointer whose target is read: NULL, or Ptr(object)
NULL == <<>>
Ptr(object) == <<object>>
Deref(pointer) == pointer[1]
\* the buffer-object handle 0 (no buffer object)
NoBuffer == "0"
\* the diagnostic of an abort: the message and its arguments
Fatal(msg, args) == [msg |-> msg, args |-> args]
NoFatal == Fatal("", <<>>)

(* The messages of the fatal assertions *)
MsgStageTwice == "Stage cannot be run twice"
MsgNotPrepared == "not prepared for current stage"
MsgUnsupportedColorFilter == "unsupported ColorFilter"
MsgVerifyTexture == "Texture %p, hT%d, hET %d, attribFlags %x"
MsgVerifyNoTexture == "No texture, hT%d, hET %d, attribFlags %x"
MsgVerifyVboAlpha == "VBO and alpha attributes are not currently compatible"
MsgVerifyTextureTransform == "Texture transform incorrectly specified"

LOG_ALWAYS_FATAL(b, msg, args) == [b EXCEPT !.fatal = Fatal(msg, args)]

Aborted(b) == b.fatal.msg # ""

\* mutant: the stage is marked without the check that it has not run yet
TRIGGER_STAGE_Unchecked(b, stageFlag) ==
    IF Aborted(b) THEN b
    ELSE [b EXCEPT !.mStageFlags = @ \cup {stageFlag}]

\* mutant: the stage is assigned instead of or-ed into the flags
TRIGGER_STAGE_Assigns(b, stageFlag) ==
    IF Aborted(b) THEN b
    ELSE IF stageFlag \in b.mStageFlags
         THEN LOG_ALWAYS_FATAL(b, MsgStageTwice, <<stageFlag>>)
         ELSE [b EXCEPT !.mStageFlags = {stageFlag}]

TRIGGER_STAGE(b, stageFlag) ==
    IF Aborted(b) THEN b
    ELSE IF stageFlag \in b.mStageFlags
         THEN LOG_ALWAYS_FATAL(b, MsgStageTwice, <<stageFlag>>)
         ELSE [b EXCEPT !.mStageFlags = @ \cup {stageFlag}]

\* mutant: one of the required stages is enough
REQUIRE_STAGES_AnyOf(b, requiredFlags) ==
    IF Aborted(b) THEN b
    ELSE IF requiredFlags # {} /\ (b.mStageFlags \cap requiredFlags) = {}
         THEN LOG_ALWAYS_FATAL(b, MsgNotPrepared, <<>>)
         ELSE b

REQUIRE_STAGES(b, requiredFlags) ==
    IF Aborted(b) THEN b
    ELSE IF (b.mStageFlags \cap requiredFlags) # requiredFlags
         THEN LOG_ALWAYS_FATAL(b, MsgNotPrepared, <<>>)
         ELSE b

----------------------------------------------------------------------------
(* Vertex attribute flags and the mesh setters *)

kTextureCoord == "TextureCoord"
kColor == "Color"
kAlpha == "Alpha"
kNone == {}

Rect(l, t, r, b) == [left |-> l, top |-> t, right |-> r, bottom |-> b]
RectI(l, t, r, b) == Rect(RInt(l), RInt(t), RInt(r), RInt(b))
UnitRect == RectI(0, 0, 1, 1)
EmptyRect == RectI(0, 0, 0, 0)
getWidth(r) == RSub(r.right, r.left)
getHeight(r) == RSub(r.bottom, r.top)
translate(r, dx, dy) ==
    Rect(RAdd(r.left, dx), RAdd(r.top, dy), RAdd(r.right, dx), RAdd(r.bottom, dy))

\* the four TextureVertex {x, y, u, v} of a unit quad
setUnitQuadTextureCoords(uvs) ==
    << <<RZero, RZero, uvs.left, uvs.top>>,
       <<ROne, RZero, uvs.right, uvs.top>>,
       <<RZero, ROne, uvs.left, uvs.bottom>>,
       <<ROne, ROne, uvs.right, uvs.bottom>> >>

\* UvMapper::map(Rect&): linear interpolation of each edge into the mapper's range
lerp(a, b, t) == RAdd(a, RMul(RSub(b, a), t))
UvMapperMap(m, uvs) ==
    Rect(lerp(m.minU, m.maxU, uvs.left), lerp(m.minV, m.maxV, uvs.top),
         lerp(m.minU, m.maxU, uvs.right), lerp(m.minV, m.maxV, uvs.bottom))

Vertices(bufferObject, attribFlags, position, texCoord, color, stride) ==
    [bufferObject |-> bufferObject, attribFlags |-> attribFlags,
     position |-> position, texCoord |-> texCoord, color |-> color,
     stride |-> stride]

Indices(bufferObject, indices) == [bufferObject |-> bufferObject, indices |-> indices]

SetMesh(b, primitiveMode, indices, vertices, elementCount) ==
    [b EXCEPT !.mOutGlop.mesh.primitiveMode = primitiveMode,
              !.mOutGlop.mesh.indices = indices,
              !.mOutGlop.mesh.vertices = vertices,
              !.mOutGlop.mesh.elementCount = elementCount]

\* mutant: the unit quad declares the texture-coordinate attribute
setMeshUnitQuad_TextureCoord(b0) ==
    LET b1 == TRIGGER_STAGE(b0, kMeshStage)
    IN  IF Aborted(b1) THEN b1
        ELSE SetMesh(b1, "GL_TRIANGLE_STRIP", Indices(NoBuffer, nullptr),
                     Vertices("UnitQuadVBO", {kTextureCoord}, nullptr, nullptr,
                              nullptr, "kTextureVertexStride"),
                     4)

setMeshUnitQuad(b0) ==
    LET b1 == TRIGGER_STAGE(b0, kMeshStage)
    IN  IF Aborted(b1) THEN b1
        ELSE SetMesh(b1, "GL_TRIANGLE_STRIP", Indices(NoBuffer, nullptr),
                     Vertices("UnitQuadVBO", kNone, nullptr, nullptr, nullptr,
                              "kTextureVertexStride"),
                     4)

setMeshTexturedUvQuad(b0, uvMapper, uvs) ==
    LET b1 == TRIGGER_STAGE(b0, kMeshStage)
        mapped == IF uvMapper # NULL THEN UvMapperMap(Deref(uvMapper), uvs) ELSE uvs
        b2 == [b1 EXCEPT !.mOutGlop.mesh.mappedVertices =
                             setUnitQuadTextureCoords(mapped)]
    IN  IF Aborted(b1) THEN b1
        ELSE SetMesh(b2, "GL_TRIANGLE_STRIP", Indices(NoBuffer, nullptr),
                     Vertices(NoBuffer, {kTextureCoord}, "mappedVertices.x",
                              "mappedVertices.u", nullptr, "kTextureVertexStride"),
                     4)

setMeshTexturedUnitQuad(b0, uvMapper) ==
    IF uvMapper # NULL
    THEN setMeshTexturedUvQuad(b0, uvMapper, UnitRect)
    ELSE LET b1 == TRIGGER_STAGE(b0, kMeshStage)
         IN  IF Aborted(b1) THEN b1
             ELSE SetMesh(b1, "GL_TRIANGLE_STRIP", Indices(NoBuffer, nullptr),
                          Vertices("UnitQuadVBO", {kTextureCoord}, nullptr,
                                   "kMeshTextureOffset", nullptr,
                                   "kTextureVertexStride"),
                          4)

setMeshIndexedQuads(b0, vertexData, quadCount) ==
    LET b1 == TRIGGER_STAGE(b0, kMeshStage)
    IN  IF Aborted(b1) THEN b1
        ELSE SetMesh(b1, "GL_TRIANGLES", Indices("QuadListIBO", nullptr),
                     Vertices(NoBuffer, kNone, vertexData, nullptr, nullptr,
                              "kVertexStride"),
                     6 * quadCount)

setMeshTexturedIndexedQuads(b0, vertexData, elementCount) ==
    LET b1 == TRIGGER_STAGE(b0, kMeshStage)
    IN  IF Aborted(b1) THEN b1
        ELSE SetMesh(b1, "GL_TRIANGLES", Indices("QuadListIBO", nullptr),
                     Vertices(NoBuffer, {kTextureCoord}, vertexData, vertexData, nullptr,
                              "kTextureVertexStride"),
                     elementCount)

setMeshTexturedMesh(b0, vertexData, elementCount) ==
    LET b1 == TRIGGER_STAGE(b0, kMeshStage)
    IN  IF Aborted(b1) THEN b1
        ELSE SetMesh(b1, "GL_TRIANGLES", Indices(NoBuffer, nullptr),
                     Vertices(NoBuffer, {kTextureCoord}, vertexData, vertexData, nullptr,
                              "kTextureVertexStride"),
                     elementCount)

setMeshColoredTexturedMesh(b0, vertexData, elementCount) ==
    LET b1 == TRIGGER_STAGE(b0, kMeshStage)
    IN  IF Aborted(b1) THEN b1
        ELSE SetMesh(b1, "GL_TRIANGLES", Indices(NoBuffer, nullptr),
                     Vertices(NoBuffer, {kTextureCoord, kColor}, vertexData, vertexData,
                              vertexData, "kColorTextureVertexStride"),
                     elementCount)

\* vertexBuffer: [flags: subset of {"kAlpha", "kIndices"}, buffer, indices,
\*                vertexCount, indexCount]
\* mutant: the vertices are sourced from the unit quad's buffer object
setMeshVertexBuffer_FromVBO(b0, vertexBuffer, shadowInterp) ==
    LET b1 == TRIGGER_STAGE(b0, kMeshStage)
        alphaVertex == "kAlpha" \in vertexBuffer.flags
        indices == "kIndices" \in vertexBuffer.flags
        b2 == SetMesh(b1, "GL_TRIANGLE_STRIP", Indices(NoBuffer, vertexBuffer.indices),
                      Vertices("UnitQuadVBO", IF alphaVertex THEN {kAlpha} ELSE kNone,
                               vertexBuffer.buffer, nullptr, nullptr,
                               IF alphaVertex THEN "kAlphaVertexStride"
                                              ELSE "kVertexStride"),
                      IF indices THEN vertexBuffer.indexCount
                                 ELSE vertexBuffer.vertexCount)
    IN  IF Aborted(b1) THEN b1
        ELSE [b2 EXCEPT !.mDescription.useShadowAlphaInterp = shadowInterp]

setMeshVertexBuffer(b0, vertexBuffer, shadowInterp) ==
    LET b1 == TRIGGER_STAGE(b0, kMeshStage)
        alphaVertex == "kAlpha" \in vertexBuffer.flags
        indices == "kIndices" \in vertexBuffer.flags
        b2 == SetMesh(b1, "GL_TRIANGLE_STRIP", Indices(NoBuffer, vertexBuffer.indices),
                      Vertices(NoBuffer, IF alphaVertex THEN {kAlpha} ELSE kNone,
                               vertexBuffer.buffer, nullptr, nullptr,
                               IF alphaVertex THEN "kAlphaVertexStride"
                                              ELSE "kVertexStride"),
                      IF indices THEN vertexBuffer.indexCount
                                 ELSE vertexBuffer.vertexCount)
    IN  IF Aborted(b1) THEN b1
        ELSE [b2 EXCEPT !.mDescription.useShadowAlphaInterp = shadowInterp]

\* patch: [positionOffset, textureOffset, indexCount]
setMeshPatchQuads(b0, patch) ==
    LET b1 == TRIGGER_STAGE(b0, kMeshStage)
    IN  IF Aborted(b1) THEN b1
        ELSE SetMesh(b1, "GL_TRIANGLES", Indices("QuadListIBO", nullptr),
                     Vertices("PatchMeshBuffer", {kTextureCoord},
                              patch.positionOffset, patch.textureOffset, nullptr,
                              "kTextureVertexStride"),
                     patch.indexCount)

----------------------------------------------------------------------------
(* Blend modes (SkXfermode::Mode, in declaration order) and blend factors *)

SkXfermodeModes ==
    <<"kClear_Mode", "kSrc_Mode", "kDst_Mode", "kSrcOver_Mode", "kDstOver_Mode",
      "kSrcIn_Mode", "kDstIn_Mode", "kSrcOut_Mode", "kDstOut_Mode",
      "kSrcATop_Mode", "kDstATop_Mode", "kXor_Mode", "kPlus_Mode",
      "kModulate_Mode", "kScreen_Mode", "kOverlay_Mode", "kDarken_Mode",
      "kLighten_Mode", "kColorDodge_Mode", "kColorBurn_Mode", "kHardLight_Mode",
      "kSoftLight_Mode", "kDifference_Mode", "kExclusion_Mode", "kMultiply_Mode",
      "kHue_Mode", "kSaturation_Mode", "kColor_Mode", "kLuminosity_Mode">>

\* the enumerator's value: the comparison mode <= kScreen_Mode is on these
ModeValue(mode) ==
    CHOOSE i \in 1..Len(SkXfermodeModes) : SkXfermodeModes[i] = mode

kClear_Mode == "kClear_Mode"
kSrcOver_Mode == "kSrcOver_Mode"
kScreen_Mode == "kScreen_Mode"

NoSwap == "NoSwap"
Swap == "Swap"

Blend(src, dst) == [src |-> src, dst |-> dst]

\* Blend::getFactors: the fixed table mode x swap -> (source, destination)
kBlends ==
    [kClear_Mode    |-> Blend("GL_ZERO", "GL_ONE_MINUS_SRC_ALPHA"),
     kSrc_Mode      |-> Blend("GL_ONE", "GL_ZERO"),
     kDst_Mode      |-> Blend("GL_ZERO", "GL_ONE"),
     kSrcOver_Mode  |-> Blend("GL_ONE", "GL_ONE_MINUS_SRC_ALPHA"),
     kDstOver_Mode  |-> Blend("GL_ONE_MINUS_DST_ALPHA", "GL_ONE"),
     kSrcIn_Mode    |-> Blend("GL_DST_ALPHA", "GL_ZERO"),
     kDstIn_Mode    |-> Blend("GL_ZERO", "GL_SRC_ALPHA"),
     kSrcOut_Mode   |-> Blend("GL_ONE_MINUS_DST_ALPHA", "GL_ZERO"),
     kDstOut_Mode   |-> Blend("GL_ZERO", "GL_ONE_MINUS_SRC_ALPHA"),
     kSrcATop_Mode  |-> Blend("GL_DST_ALPHA", "GL_ONE_MINUS_SRC_ALPHA"),
     kDstATop_Mode  |-> Blend("GL_ONE_MINUS_DST_ALPHA", "GL_SRC_ALPHA"),
     kXor_Mode      |-> Blend("GL_ONE_MINUS_DST_ALPHA", "GL_ONE_MINUS_SRC_ALPHA"),
     kPlus_Mode     |-> Blend("GL_ONE", "GL_ONE"),
     kModulate_Mode |-> Blend("GL_ZERO", "GL_SRC_COLOR"),
     kScreen_Mode   |-> Blend("GL_ONE", "GL_ONE_MINUS_SRC_COLOR")]

kBlendsSwap ==
    [kClear_Mode    |-> Blend("GL_ONE_MINUS_DST_ALPHA", "GL_ZERO"),
     kSrc_Mode      |-> Blend("GL_ZERO", "GL_ONE"),
     kDst_Mode      |-> Blend("GL_ONE", "GL_ZERO"),
     kSrcOver_Mode  |-> Blend("GL_ONE_MINUS_DST_ALPHA", "GL_ONE"),
     kDstOver_Mode  |-> Blend("GL_ONE", "GL_ONE_MINUS_SRC_ALPHA"),
     kSrcIn_Mode    |-> Blend("GL_ZERO", "GL_SRC_ALPHA"),
     kDstIn_Mode    |-> Blend("GL_DST_ALPHA", "GL_ZERO"),
     kSrcOut_Mode   |-> Blend("GL_ZERO", "GL_ONE_MINUS_SRC_ALPHA"),
     kDstOut_Mode   |-> Blend("GL_ONE_MINUS_DST_ALPHA", "GL_ZERO"),
     kSrcATop_Mode  |-> Blend("GL_ONE_MINUS_DST_ALPHA", "GL_SRC_ALPHA"),
     kDstATop_Mode  |-> Blend("GL_DST_ALPHA", "GL_ONE_MINUS_SRC_ALPHA"),
     kXor_Mode      |-> Blend("GL_ONE_MINUS_DST_ALPHA", "GL_ONE_MINUS_SRC_ALPHA"),
     kPlus_Mode     |-> Blend("GL_ONE", "GL_ONE"),
     kModulate_Mode |-> Blend("GL_DST_COLOR", "GL_ZERO"),
     kScreen_Mode   |-> Blend("GL_ONE_MINUS_DST_COLOR", "GL_ONE")]

getFactors(mode, modeUsage) ==
    IF modeUsage = Swap THEN kBlendsSwap[mode] ELSE kBlends[mode]

NoBlend == Blend("GL_ZERO", "GL_ZERO")

----------------------------------------------------------------------------
(* Colors, paints, shaders, color filters *)

\* an SkColor, by channel (each 0..255)
ARGB(a, r, g, b) == [a |-> a, r |-> r, g |-> g, b |-> b]
SkColorGetA(color) == color.a
SkColorGetR(color) == color.r
SkColorGetG(color) == color.g
SkColorGetB(color) == color.b
SK_ColorBLACK == ARGB(255, 0, 0, 0)
SK_ColorWHITE == ARGB(255, 255, 255, 255)

FloatColor(r, g, b, a) == [r |-> r, g |-> g, b |-> b, a |-> a]

\* FloatColor::isNotBlack
isNotBlack(c) ==
    RLess(c.a, ROne) \/ RLess(RZero, c.r) \/ RLess(RZero, c.g) \/ RLess(RZero, c.b)

\* PaintUtils::isBlendedShader: a shader that is not opaque
isBlendedShader(shader) ==
    IF shader = NULL THEN FALSE ELSE ~Deref(shader).isOpaque

\* PaintUtils::isBlendedColorFilter: a filter that may change alpha
isBlendedColorFilter(colorFilter) ==
    IF colorFilter = NULL THEN FALSE ELSE ~Deref(colorFilter).alphaUnchanged

\* PaintUtils::getFilter
getFilter(paint) ==
    IF paint = NULL \/ Deref(paint).filterLevel # "kNone_FilterLevel"
    THEN "GL_LINEAR" ELSE "GL_NEAREST"

kColorNone == "kColorNone"
kColorMatrix == "kColorMatrix"
kColorBlend == "kColorBlend"

----------------------------------------------------------------------------
(* The core fill algorithm *)

SetFillArgs(color, alphaScale, mode, modeUsage, shader, colorFilter) ==
    [color |-> color, alphaScale |-> alphaScale, mode |-> mode,
     modeUsage |-> modeUsage, shader |-> shader, colorFilter |-> colorFilter]

\* mutant: the shader is looked at before the clear mode
setFillColor_ShaderBeforeClear(color, alphaScale, mode, shader) ==
    LET alpha == RMul(Rat(SkColorGetA(color), 255), alphaScale)
        colorScale == RDiv(alpha, RInt(255))
    IN  IF shader # NULL
        THEN FloatColor(ROne, ROne, ROne, alpha)
        ELSE IF mode # kClear_Mode
             THEN FloatColor(RMul(colorScale, RInt(SkColorGetR(color))),
                             RMul(colorScale, RInt(SkColorGetG(color))),
                             RMul(colorScale, RInt(SkColorGetB(color))),
                             alpha)
             ELSE FloatColor(RZero, RZero, RZero, ROne)

\* mutant: the color is premultiplied whether or not there is a shader
setFillColor_IgnoresShader(color, alphaScale, mode, shader) ==
    IF mode # kClear_Mode
    THEN LET alpha == RMul(Rat(SkColorGetA(color), 255), alphaScale)
             colorScale == RDiv(alpha, RInt(255))
         IN  FloatColor(RMul(colorScale, RInt(SkColorGetR(color))),
                        RMul(colorScale, RInt(SkColorGetG(color))),
                        RMul(colorScale, RInt(SkColorGetB(color))),
                        alpha)
    ELSE FloatColor(RZero, RZero, RZero, ROne)

\* mutant: each channel is divided by 255 once more
setFillColor_ScaledTwice(color, alphaScale, mode, shader) ==
    IF mode # kClear_Mode
    THEN LET alpha == RMul(Rat(SkColorGetA(color), 255), alphaScale)
             colorScale == RDiv(RDiv(alpha, RInt(255)), RInt(255))
         IN  IF shader = NULL
             THEN FloatColor(RMul(colorScale, RInt(SkColorGetR(color))),
                             RMul(colorScale, RInt(SkColorGetG(color))),
                             RMul(colorScale, RInt(SkColorGetB(color))),
                             alpha)
             ELSE FloatColor(ROne, ROne, ROne, alpha)
    ELSE FloatColor(RZero, RZero, RZero, ROne)

\* lines 214-229: the fill color
setFillColor(color, alphaScale, mode, shader) ==
    IF mode # kClear_Mode
    THEN LET alpha == RMul(Rat(SkColorGetA(color), 255), alphaScale)
             colorScale == RDiv(alpha, RInt(255))
         IN  IF shader = NULL
             THEN FloatColor(RMul(colorScale, RInt(SkColorGetR(color))),
                             RMul(colorScale, RInt(SkColorGetG(color))),
                             RMul(colorScale, RInt(SkColorGetB(color))),
                             alpha)
             ELSE FloatColor(ROne, ROne, ROne, alpha)
    ELSE FloatColor(RZero, RZero, RZero, ROne)

\* mutant: a fill alpha of one also asks for blending
setFillNeedsBlend_AlphaOne(b, mode, shader, colorFilter) ==
    \/ ~RLess(ROne, b.mOutGlop.fill.color.a)
    \/ kAlpha \in b.mOutGlop.mesh.vertices.attribFlags
    \/ (/\ b.mOutGlop.fill.texture.texture # NULL
        /\ Deref(b.mOutGlop.fill.texture.texture).blend)
    \/ b.mOutGlop.roundRectClipState # nullptr
    \/ isBlendedShader(shader)
    \/ isBlendedColorFilter(colorFilter)
    \/ mode # kSrcOver_Mode

\* mutant: the per-vertex alpha of the mesh is not looked at
setFillNeedsBlend_IgnoresVertexAlpha(b, mode, shader, colorFilter) ==
    \/ RLess(b.mOutGlop.fill.color.a, ROne)
    \/ (/\ b.mOutGlop.fill.texture.texture # NULL
        /\ Deref(b.mOutGlop.fill.texture.texture).blend)
    \/ b.mOutGlop.roundRectClipState # nullptr
    \/ isBlendedShader(shader)
    \/ isBlendedColorFilter(colorFilter)
    \/ mode # kSrcOver_Mode

\* lines 232-238: whether blending is required
setFillNeedsBlend(b, mode, shader, colorFilter) ==
    \/ RLess(b.mOutGlop.fill.color.a, ROne)
    \/ kAlpha \in b.mOutGlop.mesh.vertices.attribFlags
    \/ (/\ b.mOutGlop.fill.texture.texture # NULL
        /\ Deref(b.mOutGlop.fill.texture.texture).blend)
    \/ b.mOutGlop.roundRectClipState # nullptr
    \/ isBlendedShader(shader)
    \/ isBlendedColorFilter(colorFilter)
    \/ mode # kSrcOver_Mode

\* mutant: the fallback to source-over drops the swap flag
setFillBlend_FallbackNoSwap(b0, mode, modeUsage, shader, colorFilter) ==
    LET b1 == [b0 EXCEPT !.mOutGlop.blend = NoBlend]
    IN  IF setFillNeedsBlend(b1, mode, shader, colorFilter)
        THEN IF ModeValue(mode) <= ModeValue(kScreen_Mode)
             THEN [b1 EXCEPT !.mOutGlop.blend = getFactors(mode, modeUsage)]
             ELSE IF b1.hasFramebufferFetch
                  THEN [b1 EXCEPT !.mDescription.framebufferMode = mode,
                                  !.mDescription.swapSrcDst = (modeUsage = Swap)]
                  ELSE [b1 EXCEPT !.mOutGlop.blend =
                                      getFactors(kSrcOver_Mode, NoSwap)]
        ELSE b1

\* mutant: with framebuffer fetch the source-over factors are enabled as well
setFillBlend_FetchAlsoBlends(b0, mode, modeUsage, shader, colorFilter) ==
    LET b1 == [b0 EXCEPT !.mOutGlop.blend = NoBlend]
    IN  IF setFillNeedsBlend(b1, mode, shader, colorFilter)
        THEN IF ModeValue(mode) <= ModeValue(kScreen_Mode)
             THEN [b1 EXCEPT !.mOutGlop.blend = getFactors(mode, modeUsage)]
             ELSE IF b1.hasFramebufferFetch
                  THEN [b1 EXCEPT !.mDescription.framebufferMode = mode,
                                  !.mDescription.swapSrcDst = (modeUsage = Swap),
                                  !.mOutGlop.blend =
                                      getFactors(kSrcOver_Mode, modeUsage)]
                  ELSE [b1 EXCEPT !.mOutGlop.blend =
                                      getFactors(kSrcOver_Mode, modeUsage)]
        ELSE b1

\* lines 231-258: blend factors, or the shader-side blend mode
setFillBlend(b0, mode, modeUsage, shader, colorFilter) ==
    LET b1 == [b0 EXCEPT !.mOutGlop.blend = NoBlend]
    IN  IF setFillNeedsBlend(b1, mode, shader, colorFilter)
        THEN IF ModeValue(mode) <= ModeValue(kScreen_Mode)
             THEN [b1 EXCEPT !.mOutGlop.blend = getFactors(mode, modeUsage)]
             ELSE IF b1.hasFramebufferFetch
                  THEN [b1 EXCEPT !.mDescription.framebufferMode = mode,
                                  !.mDescription.swapSrcDst = (modeUsage = Swap)]
                  ELSE [b1 EXCEPT !.mOutGlop.blend =
                                      getFactors(kSrcOver_Mode, modeUsage)]
        ELSE b1

\* mutant: the first 16 coefficients are copied as they come
RepackMatrix_Contiguous(srcColorMatrix) ==
    [i \in 1..16 |-> srcColorMatrix[i]]

\* lines 280-292: the 20 coefficients repacked as a 4x4 matrix and a vector
RepackMatrix(srcColorMatrix) ==
    [i \in 1..16 |-> srcColorMatrix[5 * ((i - 1) \div 4) + ((i - 1) % 4) + 1]]

RepackVector(srcColorMatrix) ==
    [i \in 1..4 |-> RDiv(srcColorMatrix[5 * i], RInt(255))]

\* mutant: a filter of neither shape is taken as no filter
setFillColorFilter_AcceptsAny(b, colorFilter) ==
    IF colorFilter # NULL /\ (Deref(colorFilter).asColorMode
                                 \/ Deref(colorFilter).asColorMatrix)
    THEN LET f == Deref(colorFilter)
         IN  IF f.asColorMode
             THEN LET alpha == Rat(SkColorGetA(f.color), 255)
                      colorScale == RDiv(alpha, RInt(255))
                  IN  [b EXCEPT
                        !.mOutGlop.fill.filterMode = kColorBlend,
                        !.mDescription.colorOp = kColorBlend,
                        !.mDescription.colorMode = f.mode,
                        !.mOutGlop.fill.filter =
                            [color |-> FloatColor(
                                RMul(colorScale, RInt(SkColorGetR(f.color))),
                                RMul(colorScale, RInt(SkColorGetG(f.color))),
                                RMul(colorScale, RInt(SkColorGetB(f.color))),
                                alpha)]]
             ELSE [b EXCEPT
                    !.mOutGlop.fill.filterMode = kColorMatrix,
                    !.mDescription.colorOp = kColorMatrix,
                    !.mOutGlop.fill.filter =
                        [matrix |-> [i \in 1..16 |->
                                        f.matrix[5 * ((i - 1) \div 4) + ((i - 1) % 4) + 1]],
                         vector |-> [i \in 1..4 |->
                                        RDiv(f.matrix[5 * i], RInt(255))]]]
    ELSE [b EXCEPT !.mOutGlop.fill.filterMode = kColorNone]

\* lines 261-298: the color filter
setFillColorFilter(b, colorFilter) ==
    IF colorFilter # NULL
    THEN LET f == Deref(colorFilter)
         IN  IF f.asColorMode
             THEN LET alpha == Rat(SkColorGetA(f.color), 255)
                      colorScale == RDiv(alpha, RInt(255))
                  IN  [b EXCEPT
                        !.mOutGlop.fill.filterMode = kColorBlend,
                        !.mDescription.colorOp = kColorBlend,
                        !.mDescription.colorMode = f.mode,
                        !.mOutGlop.fill.filter =
                            [color |-> FloatColor(
                                RMul(colorScale, RInt(SkColorGetR(f.color))),
                                RMul(colorScale, RInt(SkColorGetG(f.color))),
                                RMul(colorScale, RInt(SkColorGetB(f.color))),
                                alpha)]]
             ELSE IF f.asColorMatrix
                  THEN [b EXCEPT
                         !.mOutGlop.fill.filterMode = kColorMatrix,
                         !.mDescription.colorOp = kColorMatrix,
                         !.mOutGlop.fill.filter =
                             [matrix |-> RepackMatrix(f.matrix),
                              vector |-> RepackVector(f.matrix)]]
                  ELSE LOG_ALWAYS_FATAL(b, MsgUnsupportedColorFilter, <<>>)
    ELSE [b EXCEPT !.mOutGlop.fill.filterMode = kColorNone]

setFill(b0, color, alphaScale, mode, modeUsage, shader, colorFilter) ==
    LET b1 == [b0 EXCEPT
                 !.setFillCall = Ptr(SetFillArgs(color, alphaScale, mode, modeUsage,
                                                 shader, colorFilter)),
                 !.mOutGlop.fill.color =
                     setFillColor(color, alphaScale, mode, shader)]
        b2 == setFillBlend(b1, mode, modeUsage, shader, colorFilter)
        b3 == [b2 EXCEPT !.mShader = shader]
    IN  IF Aborted(b0) THEN b0 ELSE setFillColorFilter(b3, colorFilter)

----------------------------------------------------------------------------
(* The fill setters *)

FillTexture(texture, target, filter, clamp, textureTransform) ==
    [texture |-> texture, target |-> target, filter |-> filter, clamp |-> clamp,
     textureTransform |-> textureTransform]

NoFillTexture ==
    FillTexture(NULL, "GL_INVALID_ENUM", "GL_INVALID_ENUM", "GL_INVALID_ENUM", nullptr)

kIsAlphaMaskTexture == "kIsAlphaMaskTexture"
kForceFilter == "kForceFilter"

\* a paint: [color, xfermode, shader, colorFilter, filterLevel]; xfermode is the
\* mode PaintUtils::getXfermode resolves the paint's SkXfermode to
getXfermode(paint) == paint.xfermode

\* mutant: the paint's color is handed on whatever the texture is
setFillTexturePaint_PaintColor(b0, texture, textureFillFlags, paint, alphaScale) ==
    LET b1 == TRIGGER_STAGE(b0, kFillStage)
        b2 == REQUIRE_STAGES(b1, {kMeshStage})
        filter == IF kForceFilter \in textureFillFlags
                  THEN "GL_LINEAR" ELSE getFilter(paint)
        b3 == [b2 EXCEPT !.mOutGlop.fill.texture =
                  FillTexture(Ptr(texture), "GL_TEXTURE_2D", filter,
                              "GL_CLAMP_TO_EDGE", nullptr)]
        p == Deref(paint)
        isMask == kIsAlphaMaskTexture \in textureFillFlags
        b4 == IF paint # NULL
              THEN setFill(b3, p.color, alphaScale, getXfermode(p), NoSwap,
                           IF isMask THEN p.shader ELSE NULL,
                           p.colorFilter)
              ELSE [b3 EXCEPT
                      !.mOutGlop.fill.color =
                          FloatColor(alphaScale, alphaScale, alphaScale, alphaScale),
                      !.mOutGlop.blend =
                          IF \/ RLess(alphaScale, ROne)
                             \/ kAlpha \in b3.mOutGlop.mesh.vertices.attribFlags
                             \/ texture.blend
                             \/ b3.mOutGlop.roundRectClipState # nullptr
                          THEN getFactors(kSrcOver_Mode, NoSwap)
                          ELSE NoBlend]
        b5 == IF isMask
              THEN [b4 EXCEPT !.mDescription.modulate =
                                  isNotBlack(b4.mOutGlop.fill.color),
                              !.mDescription.hasAlpha8Texture = TRUE]
              ELSE [b4 EXCEPT !.mDescription.modulate =
                                  RLess(b4.mOutGlop.fill.color.a, ROne)]
    IN  IF Aborted(b2) THEN b2 ELSE IF Aborted(b4) THEN b4 ELSE b5

setFillTexturePaint(b0, texture, textureFillFlags, paint, alphaScale) ==
    LET b1 == TRIGGER_STAGE(b0, kFillStage)
        b2 == REQUIRE_STAGES(b1, {kMeshStage})
        filter == IF kForceFilter \in textureFillFlags
                  THEN "GL_LINEAR" ELSE getFilter(paint)
        b3 == [b2 EXCEPT !.mOutGlop.fill.texture =
                  FillTexture(Ptr(texture), "GL_TEXTURE_2D", filter,
                              "GL_CLAMP_TO_EDGE", nullptr)]
        p == Deref(paint)
        isMask == kIsAlphaMaskTexture \in textureFillFlags
        b4 == IF paint # NULL
              THEN setFill(b3,
                           IF isMask THEN p.color
                           ELSE ARGB(SkColorGetA(p.color), 255, 255, 255),
                           alphaScale, getXfermode(p), NoSwap,
                           IF isMask THEN p.shader ELSE NULL,
                           p.colorFilter)
              ELSE [b3 EXCEPT
                      !.mOutGlop.fill.color =
                          FloatColor(alphaScale, alphaScale, alphaScale, alphaScale),
                      !.mOutGlop.blend =
                          IF \/ RLess(alphaScale, ROne)
                             \/ kAlpha \in b3.mOutGlop.mesh.vertices.attribFlags
                             \/ texture.blend
                             \/ b3.mOutGlop.roundRectClipState # nullptr
                          THEN getFactors(kSrcOver_Mode, NoSwap)
                          ELSE NoBlend]
        b5 == IF isMask
              THEN [b4 EXCEPT !.mDescription.modulate =
                                  isNotBlack(b4.mOutGlop.fill.color),
                              !.mDescription.hasAlpha8Texture = TRUE]
              ELSE [b4 EXCEPT !.mDescription.modulate =
                                  RLess(b4.mOutGlop.fill.color.a, ROne)]
    IN  IF Aborted(b2) THEN b2 ELSE IF Aborted(b4) THEN b4 ELSE b5

setFillPaint(b0, paint, alphaScale) ==
    LET b1 == TRIGGER_STAGE(b0, kFillStage)
        b2 == REQUIRE_STAGES(b1, {kMeshStage})
        b3 == [b2 EXCEPT !.mOutGlop.fill.texture = NoFillTexture]
        b4 == setFill(b3, paint.color, alphaScale, getXfermode(paint), NoSwap,
                      paint.shader, paint.colorFilter)
        b5 == [b4 EXCEPT !.mDescription.modulate =
                             RLess(b4.mOutGlop.fill.color.a, ROne)]
    IN  IF Aborted(b2) THEN b2 ELSE IF Aborted(b4) THEN b4 ELSE b5

setFillPathTexturePaint(b0, texture, paint, alphaScale) ==
    LET b1 == TRIGGER_STAGE(b0, kFillStage)
        b2 == REQUIRE_STAGES(b1, {kMeshStage})
        b3 == [b2 EXCEPT !.mOutGlop.fill.texture =
                  FillTexture(Ptr(texture), "GL_TEXTURE_2D", "GL_INVALID_ENUM",
                              "GL_INVALID_ENUM", nullptr)]
        b4 == setFill(b3, paint.color, alphaScale, getXfermode(paint), NoSwap,
                      paint.shader, paint.colorFilter)
        b5 == [b4 EXCEPT !.mDescription.hasAlpha8Texture = TRUE,
                         !.mDescription.modulate =
                             isNotBlack(b4.mOutGlop.fill.color)]
    IN  IF Aborted(b2) THEN b2 ELSE IF Aborted(b4) THEN b4 ELSE b5

\* lines 384-389: an opaque shadow color takes the alpha of the paint's color
ShadowColor(shadowColor, paint) ==
    IF SkColorGetA(shadowColor) = 255
    THEN [shadowColor EXCEPT !.a = SkColorGetA(paint.color)]
    ELSE shadowColor

setFillShadowTexturePaint(b0, texture, shadowColor, paint, alphaScale) ==
    LET b1 == TRIGGER_STAGE(b0, kFillStage)
        b2 == REQUIRE_STAGES(b1, {kMeshStage})
        b3 == [b2 EXCEPT !.mOutGlop.fill.texture =
                  FillTexture(Ptr(texture), "GL_TEXTURE_2D", "GL_INVALID_ENUM",
                              "GL_INVALID_ENUM", nullptr)]
        b4 == setFill(b3, ShadowColor(shadowColor, paint), alphaScale,
                      getXfermode(paint), NoSwap, paint.shader, paint.colorFilter)
        b5 == [b4 EXCEPT !.mDescription.hasAlpha8Texture = TRUE,
                         !.mDescription.modulate =
                             isNotBlack(b4.mOutGlop.fill.color)]
    IN  IF Aborted(b2) THEN b2 ELSE IF Aborted(b4) THEN b4 ELSE b5

setFillBlack(b0) ==
    LET b1 == TRIGGER_STAGE(b0, kFillStage)
        b2 == REQUIRE_STAGES(b1, {kMeshStage})
        b3 == [b2 EXCEPT !.mOutGlop.fill.texture = NoFillTexture]
    IN  IF Aborted(b2) THEN b2
        ELSE setFill(b3, SK_ColorBLACK, ROne, kSrcOver_Mode, NoSwap, NULL, NULL)

setFillClear(b0) ==
    LET b1 == TRIGGER_STAGE(b0, kFillStage)
        b2 == REQUIRE_STAGES(b1, {kMeshStage})
        b3 == [b2 EXCEPT !.mOutGlop.fill.texture = NoFillTexture]
    IN  IF Aborted(b2) THEN b2
        ELSE setFill(b3, SK_ColorBLACK, ROne, kClear_Mode, NoSwap, NULL, NULL)

setFillLayer(b0, texture, colorFilter, alpha, mode, modeUsage) ==
    LET b1 == TRIGGER_STAGE(b0, kFillStage)
        b2 == REQUIRE_STAGES(b1, {kMeshStage})
        b3 == [b2 EXCEPT
                 !.mOutGlop.fill.texture =
                     FillTexture(Ptr(texture), "GL_TEXTURE_2D", "GL_LINEAR",
                                 "GL_CLAMP_TO_EDGE", nullptr),
                 !.mOutGlop.fill.color = FloatColor(alpha, alpha, alpha, alpha)]
        b4 == setFill(b3, SK_ColorWHITE, alpha, mode, modeUsage, NULL, colorFilter)
        b5 == [b4 EXCEPT !.mDescription.modulate =
                             RLess(b4.mOutGlop.fill.color.a, ROne)]
    IN  IF Aborted(b2) THEN b2 ELSE IF Aborted(b4) THEN b4 ELSE b5

\* layer: [texture, renderTarget, texTransform, mode, colorFilter]
\* mutant: the texture transform is attached but the variant flag is not set
setFillTextureLayer_NoFlag(b0, layer, alpha) ==
    LET b1 == TRIGGER_STAGE(b0, kFillStage)
        b2 == REQUIRE_STAGES(b1, {kMeshStage})
        b3 == [b2 EXCEPT
                 !.mOutGlop.fill.texture =
                     FillTexture(Ptr(layer.texture), layer.renderTarget, "GL_LINEAR",
                                 "GL_CLAMP_TO_EDGE", layer.texTransform),
                 !.mOutGlop.fill.color = FloatColor(alpha, alpha, alpha, alpha)]
        b4 == setFill(b3, SK_ColorWHITE, alpha, layer.mode, NoSwap, NULL,
                      layer.colorFilter)
        b5 == [b4 EXCEPT !.mDescription.modulate =
                             RLess(b4.mOutGlop.fill.color.a, ROne)]
    IN  IF Aborted(b2) THEN b2 ELSE IF Aborted(b4) THEN b4 ELSE b5

setFillTextureLayer(b0, layer, alpha) ==
    LET b1 == TRIGGER_STAGE(b0, kFillStage)
        b2 == REQUIRE_STAGES(b1, {kMeshStage})
        b3 == [b2 EXCEPT
                 !.mOutGlop.fill.texture =
                     FillTexture(Ptr(layer.texture), layer.renderTarget, "GL_LINEAR",
                                 "GL_CLAMP_TO_EDGE", layer.texTransform),
                 !.mOutGlop.fill.color = FloatColor(alpha, alpha, alpha, alpha)]
        b4 == setFill(b3, SK_ColorWHITE, alpha, layer.mode, NoSwap, NULL,
                      layer.colorFilter)
        b5 == [b4 EXCEPT !.mDescription.modulate =
                             RLess(b4.mOutGlop.fill.color.a, ROne),
                         !.mDescription.hasTextureTransform = TRUE]
    IN  IF Aborted(b2) THEN b2 ELSE IF Aborted(b4) THEN b4 ELSE b5

----------------------------------------------------------------------------
(* Matrix4, restricted to the matrices that scale and translate in x and y *)

Matrix4(sx, sy, tx, ty) == [sx |-> sx, sy |-> sy, tx |-> tx, ty |-> ty]
Identity == Matrix4(ROne, ROne, RZero, RZero)
loadTranslate(x, y) == Matrix4(ROne, ROne, x, y)
\* Matrix4::scale multiplies the scale entries and leaves the translation
scale(m, sx, sy) == [m EXCEPT !.sx = RMul(@, sx), !.sy = RMul(@, sy)]
isPureTranslate(m) == m.sx = ROne /\ m.sy = ROne
getTranslateX(m) == m.tx
getTranslateY(m) == m.ty

\* Matrix4::mapRect: the bounding box of the mapped corners
mapRect(m, r) ==
    LET l == RAdd(RMul(r.left, m.sx), m.tx)
        rr == RAdd(RMul(r.right, m.sx), m.tx)
        t == RAdd(RMul(r.top, m.sy), m.ty)
        bb == RAdd(RMul(r.bottom, m.sy), m.ty)
    IN  Rect(RMin(l, rr), RMin(t, bb), RMax(l, rr), RMax(t, bb))

----------------------------------------------------------------------------
(* Transform, model view, clip *)

setTransform(b0, ortho, transform, fudgingOffset) ==
    LET b1 == TRIGGER_STAGE(b0, kTransformStage)
    IN  IF Aborted(b1) THEN b1
        ELSE [b1 EXCEPT !.mOutGlop.transform.ortho = ortho,
                        !.mOutGlop.transform.canvas = transform,
                        !.mOutGlop.transform.fudgingOffset = fudgingOffset]

setModelViewMapUnitToRect(b0, destination) ==
    LET b1 == TRIGGER_STAGE(b0, kModelViewStage)
    IN  IF Aborted(b1) THEN b1
        ELSE [b1 EXCEPT
                !.modelViewCall = Ptr([destination |-> destination]),
                !.mOutGlop.transform.modelView =
                    scale(loadTranslate(destination.left, destination.top),
                          getWidth(destination), getHeight(destination)),
                !.mOutGlop.bounds = destination]

\* mutant: the destination is snapped whatever the canvas matrix is
setModelViewMapUnitToRectSnap_Always(b0, destination) ==
    LET b1 == TRIGGER_STAGE(b0, kModelViewStage)
        b2 == REQUIRE_STAGES(b1, {kTransformStage, kFillStage})
        canvasTransform == b2.mOutGlop.transform.canvas
        left == RSub(RFloor(RAdd(RAdd(destination.left, canvasTransform.tx), RHalf)),
                     canvasTransform.tx)
        top == RSub(RFloor(RAdd(RAdd(destination.top, canvasTransform.ty), RHalf)),
                    canvasTransform.ty)
    IN  IF Aborted(b2) THEN b2
        ELSE [b2 EXCEPT
                !.modelViewCall = Ptr([destination |-> destination]),
                !.mOutGlop.fill.texture.filter = "GL_NEAREST",
                !.mOutGlop.transform.modelView =
                    scale(loadTranslate(left, top),
                          getWidth(destination), getHeight(destination)),
                !.mOutGlop.bounds = destination]

\* mutant: rounds down instead of half up
Snap_Floor(x, translateXY) ==
    RSub(RFloor(RAdd(x, translateXY)), translateXY)

\* lines 491, 492, 521, 522: (int) floorf(x + translate + 0.5f) - translate
Snap(x, translateXY) ==
    RSub(RFloor(RAdd(RAdd(x, translateXY), RHalf)), translateXY)

setModelViewMapUnitToRectSnap(b0, destination) ==
    LET b1 == TRIGGER_STAGE(b0, kModelViewStage)
        b2 == REQUIRE_STAGES(b1, {kTransformStage, kFillStage})
        canvasTransform == b2.mOutGlop.transform.canvas
        pure == isPureTranslate(canvasTransform)
        left == IF pure
                THEN Snap(destination.left, getTranslateX(canvasTransform))
                ELSE destination.left
        top == IF pure
               THEN Snap(destination.top, getTranslateY(canvasTransform))
               ELSE destination.top
        b3 == IF pure
              THEN [b2 EXCEPT !.mOutGlop.fill.texture.filter = "GL_NEAREST"]
              ELSE b2
    IN  IF Aborted(b2) THEN b2
        ELSE [b3 EXCEPT
                !.modelViewCall = Ptr([destination |-> destination]),
                !.mOutGlop.transform.modelView =
                    scale(loadTranslate(left, top),
                          getWidth(destination), getHeight(destination)),
                !.mOutGlop.bounds = destination]

setModelViewOffsetRect(b0, offsetX, offsetY, source) ==
    LET b1 == TRIGGER_STAGE(b0, kModelViewStage)
    IN  IF Aborted(b1) THEN b1
        ELSE [b1 EXCEPT
                !.modelViewCall = Ptr([offsetX |-> offsetX, offsetY |-> offsetY,
                                       source |-> source]),
                !.mOutGlop.transform.modelView = loadTranslate(offsetX, offsetY),
                !.mOutGlop.bounds = translate(source, offsetX, offsetY)]

\* mutant: rounds the offset without the origin of the source rectangle
setModelViewOffsetRectSnap_IgnoresSource(b0, offsetX, offsetY, source) ==
    LET b1 == TRIGGER_STAGE(b0, kModelViewStage)
        b2 == REQUIRE_STAGES(b1, {kTransformStage, kFillStage})
        canvasTransform == b2.mOutGlop.transform.canvas
        pure == isPureTranslate(canvasTransform)
        snappedX == IF pure
                    THEN Snap(offsetX, getTranslateX(canvasTransform))
                    ELSE offsetX
        snappedY == IF pure
                    THEN Snap(offsetY, getTranslateY(canvasTransform))
                    ELSE offsetY
        b3 == IF pure
              THEN [b2 EXCEPT !.mOutGlop.fill.texture.filter = "GL_NEAREST"]
              ELSE b2
    IN  IF Aborted(b2) THEN b2
        ELSE [b3 EXCEPT
                !.modelViewCall = Ptr([offsetX |-> offsetX, offsetY |-> offsetY,
                                       source |-> source]),
                !.mOutGlop.transform.modelView = loadTranslate(snappedX, snappedY),
                !.mOutGlop.bounds = translate(source, snappedX, snappedY)]

setModelViewOffsetRectSnap(b0, offsetX, offsetY, source) ==
    LET b1 == TRIGGER_STAGE(b0, kModelViewStage)
        b2 == REQUIRE_STAGES(b1, {kTransformStage, kFillStage})
        canvasTransform == b2.mOutGlop.transform.canvas
        pure == isPureTranslate(canvasTransform)
        snappedX == IF pure
                    THEN RSub(Snap(RAdd(offsetX, source.left),
                                   getTranslateX(canvasTransform)), source.left)
                    ELSE offsetX
        snappedY == IF pure
                    THEN RSub(Snap(RAdd(offsetY, source.top),
                                   getTranslateY(canvasTransform)), source.top)
                    ELSE offsetY
        b3 == IF pure
              THEN [b2 EXCEPT !.mOutGlop.fill.texture.filter = "GL_NEAREST"]
              ELSE b2
    IN  IF Aborted(b2) THEN b2
        ELSE [b3 EXCEPT
                !.modelViewCall = Ptr([offsetX |-> offsetX, offsetY |-> offsetY,
                                       source |-> source]),
                !.mOutGlop.transform.modelView = loadTranslate(snappedX, snappedY),
                !.mOutGlop.bounds = translate(source, snappedX, snappedY)]

setRoundRectClipState(b0, roundRectClipState) ==
    LET b1 == TRIGGER_STAGE(b0, kRoundRectClipStage)
    IN  IF Aborted(b1) THEN b1
        ELSE [b1 EXCEPT !.mOutGlop.roundRectClipState = roundRectClipState,
                        !.mDescription.hasRoundRectClip =
                            (roundRectClipState # nullptr)]

----------------------------------------------------------------------------
(* Build *)

\* mutant: a texture is accepted whatever the attributes of the mesh
verifyTexture_AnyMesh(description, glop) ==
    IF glop.fill.texture.texture # NULL
    THEN IF \/ (description.hasTexture /\ description.hasExternalTexture)
            \/ (~description.hasTexture /\ ~description.hasExternalTexture
                    /\ kTextureCoord \in glop.mesh.vertices.attribFlags)
         THEN Fatal(MsgVerifyTexture,
                    <<Deref(glop.fill.texture.texture).id, description.hasTexture,
                      description.hasExternalTexture,
                      glop.mesh.vertices.attribFlags>>)
         ELSE NoFatal
    ELSE IF \/ description.hasTexture
            \/ description.hasExternalTexture
            \/ kTextureCoord \in glop.mesh.vertices.attribFlags
         THEN Fatal(MsgVerifyNoTexture,
                    <<description.hasTexture, description.hasExternalTexture,
                      glop.mesh.vertices.attribFlags>>)
         ELSE NoFatal

verifyTexture(description, glop) ==
    IF glop.fill.texture.texture # NULL
    THEN IF \/ (description.hasTexture /\ description.hasExternalTexture)
            \/ (~description.hasTexture /\ ~description.hasExternalTexture)
            \/ kTextureCoord \notin glop.mesh.vertices.attribFlags
         THEN Fatal(MsgVerifyTexture,
                    <<Deref(glop.fill.texture.texture).id, description.hasTexture,
                      description.hasExternalTexture,
                      glop.mesh.vertices.attribFlags>>)
         ELSE NoFatal
    ELSE IF \/ description.hasTexture
            \/ description.hasExternalTexture
            \/ kTextureCoord \in glop.mesh.vertices.attribFlags
         THEN Fatal(MsgVerifyNoTexture,
                    <<description.hasTexture, description.hasExternalTexture,
                      glop.mesh.vertices.attribFlags>>)
         ELSE NoFatal

verifyVboAlpha(description, glop) ==
    IF /\ kAlpha \in glop.mesh.vertices.attribFlags
       /\ glop.mesh.vertices.bufferObject # NoBuffer
    THEN Fatal(MsgVerifyVboAlpha, <<>>) ELSE NoFatal

verifyTextureTransform(description, glop) ==
    IF description.hasTextureTransform
           # (glop.fill.texture.textureTransform # nullptr)
    THEN Fatal(MsgVerifyTextureTransform, <<>>) ELSE NoFatal

\* the diagnostic of the first check that fails, or NoFatal
verify(description, glop) ==
    IF verifyTexture(description, glop).msg # ""
    THEN verifyTexture(description, glop)
    ELSE IF verifyVboAlpha(description, glop).msg # ""
         THEN verifyVboAlpha(description, glop)
         ELSE verifyTextureTransform(description, glop)

\* SkiaShader::store: the shader's kind as variant flags, and the shader data
SkiaShaderStore(b, textureUnit) ==
    IF b.mShader = NULL
    THEN [b EXCEPT !.mOutGlop.fill.skiaShaderData =
                       [skiaShaderType |-> "kNone_SkiaShaderType",
                        textureUnit |-> textureUnit]]
    ELSE [b EXCEPT
            !.mDescription.hasGradient = @ \/ Deref(b.mShader).type = "gradient",
            !.mDescription.hasBitmap = @ \/ Deref(b.mShader).type = "bitmap",
            !.mOutGlop.fill.skiaShaderData =
                [skiaShaderType |-> Deref(b.mShader).type,
                 textureUnit |-> textureUnit]]

\* lines 578-585: the texture flags of the shader variant
buildTextureFlags(b) ==
    IF kTextureCoord \in b.mOutGlop.mesh.vertices.attribFlags
    THEN IF b.mOutGlop.fill.texture.target = "GL_TEXTURE_2D"
         THEN [b EXCEPT !.mDescription.hasTexture = TRUE]
         ELSE [b EXCEPT !.mDescription.hasExternalTexture = TRUE]
    ELSE b

\* mutant: build() also requires the clip stage
buildRequireStages_WithClip(b0) == REQUIRE_STAGES(b0, Stages)

\* line 577
buildRequireStages(b0) == REQUIRE_STAGES(b0, kAllStages)

build(b0) ==
    LET b1 == buildRequireStages(b0)
        b2 == buildTextureFlags(b1)
        b3 == [b2 EXCEPT
                 !.mDescription.hasColors =
                     kColor \in b2.mOutGlop.mesh.vertices.attribFlags,
                 !.mDescription.hasVertexAlpha =
                     kAlpha \in b2.mOutGlop.mesh.vertices.attribFlags]
        textureUnit == IF b3.mOutGlop.fill.texture.texture # NULL THEN 1 ELSE 0
        b4 == SkiaShaderStore(b3, textureUnit)
        singleColor == /\ ~b4.mDescription.hasTexture
                       /\ ~b4.mDescription.hasExternalTexture
                       /\ ~b4.mDescription.hasGradient
                       /\ ~b4.mDescription.hasBitmap
        b5 == [b4 EXCEPT !.mOutGlop.fill.colorEnabled =
                             b4.mDescription.modulate \/ singleColor]
        failed == verify(b5.mDescription, b5.mOutGlop)
    IN  IF Aborted(b1) THEN b1
        ELSE IF failed.msg # "" THEN LOG_ALWAYS_FATAL(b5, failed.msg, failed.args)
        ELSE [b5 EXCEPT
                !.mOutGlop.fill.program = Ptr(b5.mDescription),
                !.mOutGlop.bounds =
                    mapRect(b5.mOutGlop.transform.canvas, b5.mOutGlop.bounds)]

----------------------------------------------------------------------------
(* The state after construction *)

ZeroFloatColor == FloatColor(RZero, RZero, RZero, RZero)

\* the caller's Glop before the builder writes it: zero-initialized, its
\* matrices default-constructed (identity)
ZeroGlop ==
    [mesh |-> [primitiveMode |-> "0",
               indices |-> Indices(NoBuffer, nullptr),
               vertices |-> Vertices(NoBuffer, kNone, nullptr, nullptr, nullptr, "0"),
               elementCount |-> 0,
               mappedVertices |-> [i \in 1..4 |-> <<RZero, RZero, RZero, RZero>>]],
     fill |-> [program |-> NULL,
               texture |-> FillTexture(NULL, "0", "0", "0", nullptr),
               colorEnabled |-> FALSE,
               color |-> ZeroFloatColor,
               filterMode |-> kColorNone,
               filter |-> [color |-> ZeroFloatColor],
               skiaShaderData |-> [skiaShaderType |-> "kNone_SkiaShaderType",
                                   textureUnit |-> 0]],
     transform |-> [ortho |-> Identity, canvas |-> Identity,
                    modelView |-> Identity, fudgingOffset |-> FALSE],
     roundRectClipState |-> nullptr,
     bounds |-> EmptyRect,
     blend |-> NoBlend]

\* ProgramDescription::reset
ZeroDescription ==
    [hasTexture |-> FALSE, hasAlpha8Texture |-> FALSE,
     hasExternalTexture |-> FALSE, hasTextureTransform |-> FALSE,
     modulate |-> FALSE, hasBitmap |-> FALSE, hasGradient |-> FALSE,
     colorOp |-> kColorNone, colorMode |-> kClear_Mode,
     framebufferMode |-> kClear_Mode, swapSrcDst |-> FALSE,
     hasColors |-> FALSE, hasVertexAlpha |-> FALSE,
     useShadowAlphaInterp |-> FALSE, hasRoundRectClip |-> FALSE]

Build == "Build"
NoCalls == [s \in Stages \cup {Build} |-> <<>>]

\* GlopBuilder::GlopBuilder
Init ==
    /\ mStageFlags = kInitialStage
    /\ mOutGlop = ZeroGlop
    /\ mDescription = ZeroDescription
    /\ mShader = NULL
    /\ fatal = NoFatal
    /\ calls = NoCalls
    /\ setFillCall = NULL
    /\ modelViewCall = NULL
    /\ hasFramebufferFetch \in BOOLEAN

\* the builder, its descriptor and its environment as one value
Self ==
    [mStageFlags |-> mStageFlags, mOutGlop |-> mOutGlop,
     mDescription |-> mDescription, mShader |-> mShader, fatal |-> fatal,
     setFillCall |-> setFillCall, modelViewCall |-> modelViewCall,
     hasFramebufferFetch |-> hasFramebufferFetch]

\* One invocation of operation op of the given stage, whose effect on Self is r.
\* An aborted process leaves its diagnostic, the stage flags at the abort and the
\* operations invoked on the stage that aborted, and nothing else.
Invoke(stage, op, r) ==
    /\ fatal.msg = ""
    /\ Len(calls[stage]) < MaxCalls
    /\ calls' = IF Aborted(r)
                THEN [NoCalls EXCEPT ![stage] = Append(calls[stage], op)]
                ELSE [calls EXCEPT ![stage] = Append(@, op)]
    /\ fatal' = r.fatal
    /\ mStageFlags' = r.mStageFlags
    /\ mOutGlop' = IF Aborted(r) THEN ZeroGlop ELSE r.mOutGlop
    /\ mDescription' = IF Aborted(r) THEN ZeroDescription ELSE r.mDescription
    /\ mShader' = IF Aborted(r) THEN NULL ELSE r.mShader
    /\ setFillCall' = IF Aborted(r) THEN NULL ELSE r.setFillCall
    /\ modelViewCall' = IF Aborted(r) THEN NULL ELSE r.modelViewCall
    /\ UNCHANGED hasFramebufferFetch

\* An operation that aborts in TRIGGER_STAGE or REQUIRE_STAGES never reads its
\* arguments: one representative argument is explored there.
AbortsAtEntry(stage, requiredFlags) ==
    stage \in mStageFlags \/ ~(requiredFlags \subseteq mStageFlags)

ArgsOf(S, stage, requiredFlags) ==
    IF AbortsAtEntry(stage, requiredFlags) THEN {CHOOSE x \in S : TRUE} ELSE S

----------------------------------------------------------------------------
(* The inputs explored *)

Color_OpaqueRed == ARGB(255, 255, 0, 0)
Color_Translucent == ARGB(51, 10, 20, 30)

TheUvMapper == [minU |-> RZero, maxU |-> RHalf, minV |-> RZero, maxV |-> RHalf]
UvMappers == {NULL, Ptr(TheUvMapper)}

VertexBuffer(flags) ==
    [flags |-> flags, buffer |-> "vertexBuffer.buffer",
     indices |-> IF "kIndices" \in flags THEN "vertexBuffer.indices" ELSE nullptr,
     vertexCount |-> 4, indexCount |-> 6]
ThePatch ==
    [positionOffset |-> "patch.positionOffset",
     textureOffset |-> "patch.textureOffset", indexCount |-> 6]

Texture(id, blend) == [id |-> id, blend |-> blend]
OpaqueTexture == Texture("texture", FALSE)
BlendTexture == Texture("blendTexture", TRUE)

Shader(type, isOpaque) == [type |-> type, isOpaque |-> isOpaque]
OpaqueGradient == Ptr(Shader("gradient", TRUE))
BlendedBitmap == Ptr(Shader("bitmap", FALSE))

SampleMatrix == [i \in 1..20 |-> RInt(i)]
ZeroMatrix == [i \in 1..20 |-> RZero]
FractionalMatrix == [i \in 1..20 |-> Rat(51 * (i - 10), 2)]
ColorFilter(asColorMode, color, mode, asColorMatrix, matrix, alphaUnchanged) ==
    [asColorMode |-> asColorMode, color |-> color, mode |-> mode,
     asColorMatrix |-> asColorMatrix, matrix |-> matrix,
     alphaUnchanged |-> alphaUnchanged]
ModeFilter ==
    Ptr(ColorFilter(TRUE, Color_Translucent, "kSrcIn_Mode", FALSE, ZeroMatrix, FALSE))
MatrixFilter ==
    Ptr(ColorFilter(FALSE, SK_ColorBLACK, kClear_Mode, TRUE, SampleMatrix, TRUE))
ModeAndMatrixFilter ==
    Ptr(ColorFilter(TRUE, Color_OpaqueRed, kSrcOver_Mode, TRUE, SampleMatrix, TRUE))
FractionalMatrixFilter ==
    Ptr(ColorFilter(FALSE, SK_ColorBLACK, kClear_Mode, TRUE, FractionalMatrix, FALSE))
UnsupportedFilter ==
    Ptr(ColorFilter(FALSE, SK_ColorBLACK, kClear_Mode, FALSE, ZeroMatrix, TRUE))

Paint(color, xfermode, shader, colorFilter, filterLevel) ==
    [color |-> color, xfermode |-> xfermode, shader |-> shader,
     colorFilter |-> colorFilter, filterLevel |-> filterLevel]
PlainPaint(color) == Paint(color, kSrcOver_Mode, NULL, NULL, "kLow_FilterLevel")

Layer(renderTarget, mode, colorFilter) ==
    [texture |-> Texture("layer.texture", FALSE), renderTarget |-> renderTarget,
     texTransform |-> "layer.texTransform", mode |-> mode,
     colorFilter |-> colorFilter]

Canvas_Translate == Matrix4(ROne, ROne, Rat(1, 4), Rat(3, 4))
Canvas_Scale == Matrix4(RInt(2), RInt(3), RInt(5), Rat(1, 2))
Rect_10_10_50_30 == RectI(10, 10, 50, 30)
Rect_Fractional == Rect(Rat(1, 2), Rat(1, 4), Rat(5, 2), Rat(9, 4))
Canvas_NegativeTranslate == Matrix4(ROne, ROne, Rat(-5, 2), Rat(-1, 3))
Rect_Negative == Rect(Rat(-7, 4), Rat(-1, 4), ROne, ROne)

\* The inputs of the whole-builder specification: every operation and every
\* variant of each stage, a few arguments each.
BuilderInputs ==
    [uvMappers |-> UvMappers,
     vertexBuffers |-> {<<VertexBuffer({}), FALSE>>,
                        <<VertexBuffer({"kAlpha"}), TRUE>>,
                        <<VertexBuffer({"kIndices"}), FALSE>>},
     paints |-> {PlainPaint(Color_OpaqueRed),
                 Paint(Color_Translucent, kSrcOver_Mode, OpaqueGradient, NULL,
                       "kLow_FilterLevel"),
                 Paint(SK_ColorWHITE, "kOverlay_Mode", NULL, MatrixFilter,
                       "kLow_FilterLevel"),
                 Paint(Color_OpaqueRed, kClear_Mode, BlendedBitmap, NULL,
                       "kLow_FilterLevel"),
                 Paint(Color_OpaqueRed, kSrcOver_Mode, NULL, UnsupportedFilter,
                       "kLow_FilterLevel")},
     maskPaints |-> {PlainPaint(SK_ColorBLACK),
                     Paint(Color_Translucent, kClear_Mode, NULL, NULL,
                           "kLow_FilterLevel")},
     texturePaints |-> {NULL,
                        Ptr(Paint(Color_OpaqueRed, kSrcOver_Mode, OpaqueGradient,
                                  NULL, "kNone_FilterLevel"))},
     alphaScales |-> {ROne},
     textures |-> {OpaqueTexture},
     textureFillFlags |-> {{}, {kIsAlphaMaskTexture}, {kForceFilter}},
     shadowColors |-> {SK_ColorBLACK},
     layerFills |-> {<<NULL, ROne, kSrcOver_Mode, NoSwap>>,
                     <<ModeFilter, RHalf, "kOverlay_Mode", Swap>>},
     layers |-> {Layer("GL_TEXTURE_2D", kSrcOver_Mode, NULL),
                 Layer("GL_TEXTURE_EXTERNAL_OES", kClear_Mode, NULL)},
     transforms |-> {<<Identity, FALSE>>, <<Identity, TRUE>>,
                     <<Canvas_Translate, FALSE>>, <<Canvas_Scale, TRUE>>},
     destinations |-> {Rect_10_10_50_30},
     offsets |-> {<<Rat(1, 4), Rat(3, 4), Rect_Fractional>>},
     clips |-> {nullptr, "roundRectClipState"}]

----------------------------------------------------------------------------
(* The operations as actions; in is the record of input sets explored *)

SetMeshUnitQuad ==
    Invoke(kMeshStage, "setMeshUnitQuad", setMeshUnitQuad(Self))

SetMeshTexturedUnitQuad(in) ==
    \E uvMapper \in ArgsOf(in.uvMappers, kMeshStage, {}) :
        Invoke(kMeshStage, "setMeshTexturedUnitQuad",
               setMeshTexturedUnitQuad(Self, uvMapper))

SetMeshTexturedUvQuad(in) ==
    \E uvMapper \in ArgsOf(in.uvMappers, kMeshStage, {}) :
        Invoke(kMeshStage, "setMeshTexturedUvQuad",
               setMeshTexturedUvQuad(Self, uvMapper, Rect(RZero, RZero, RHalf, ROne)))

SetMeshIndexedQuads ==
    Invoke(kMeshStage, "setMeshIndexedQuads",
           setMeshIndexedQuads(Self, "vertexData", 2))

SetMeshTexturedIndexedQuads ==
    Invoke(kMeshStage, "setMeshTexturedIndexedQuads",
           setMeshTexturedIndexedQuads(Self, "vertexData", 12))

SetMeshTexturedMesh ==
    Invoke(kMeshStage, "setMeshTexturedMesh",
           setMeshTexturedMesh(Self, "vertexData", 6))

SetMeshColoredTexturedMesh ==
    Invoke(kMeshStage, "setMeshColoredTexturedMesh",
           setMeshColoredTexturedMesh(Self, "vertexData", 6))

SetMeshVertexBuffer(in) ==
    \E a \in ArgsOf(in.vertexBuffers, kMeshStage, {}) :
        Invoke(kMeshStage, "setMeshVertexBuffer",
               setMeshVertexBuffer(Self, a[1], a[2]))

SetMeshPatchQuads ==
    Invoke(kMeshStage, "setMeshPatchQuads", setMeshPatchQuads(Self, ThePatch))

SetFillTexturePaint(in) ==
    \E a \in ArgsOf(in.textures \X in.textureFillFlags \X in.texturePaints
                        \X in.alphaScales, kFillStage, {kMeshStage}) :
        Invoke(kFillStage, "setFillTexturePaint",
               setFillTexturePaint(Self, a[1], a[2], a[3], a[4]))

SetFillPaint(in) ==
    \E a \in ArgsOf(in.paints \X in.alphaScales, kFillStage, {kMeshStage}) :
        Invoke(kFillStage, "setFillPaint", setFillPaint(Self, a[1], a[2]))

SetFillPathTexturePaint(in) ==
    \E a \in ArgsOf(in.textures \X in.maskPaints \X in.alphaScales,
                    kFillStage, {kMeshStage}) :
        Invoke(kFillStage, "setFillPathTexturePaint",
               setFillPathTexturePaint(Self, a[1], a[2], a[3]))

SetFillShadowTexturePaint(in) ==
    \E a \in ArgsOf(in.textures \X in.shadowColors \X in.maskPaints
                        \X in.alphaScales,
                    kFillStage, {kMeshStage}) :
        Invoke(kFillStage, "setFillShadowTexturePaint",
               setFillShadowTexturePaint(Self, a[1], a[2], a[3], a[4]))

SetFillBlack ==
    Invoke(kFillStage, "setFillBlack", setFillBlack(Self))

SetFillClear ==
    Invoke(kFillStage, "setFillClear", setFillClear(Self))

SetFillLayer(in) ==
    \E a \in ArgsOf(in.textures \X in.layerFills, kFillStage, {kMeshStage}) :
        Invoke(kFillStage, "setFillLayer",
               setFillLayer(Self, a[1], a[2][1], a[2][2], a[2][3], a[2][4]))

SetFillTextureLayer(in) ==
    \E a \in ArgsOf(in.layers \X in.alphaScales, kFillStage, {kMeshStage}) :
        Invoke(kFillStage, "setFillTextureLayer",
               setFillTextureLayer(Self, a[1], a[2]))

SetTransform(in) ==
    \E a \in ArgsOf(in.transforms, kTransformStage, {}) :
        Invoke(kTransformStage, "setTransform",
               setTransform(Self, Identity, a[1], a[2]))

SetModelViewMapUnitToRect(in) ==
    \E destination \in ArgsOf(in.destinations, kModelViewStage, {}) :
        Invoke(kModelViewStage, "setModelViewMapUnitToRect",
               setModelViewMapUnitToRect(Self, destination))

SetModelViewMapUnitToRectSnap(in) ==
    \E destination \in ArgsOf(in.destinations, kModelViewStage,
                              {kTransformStage, kFillStage}) :
        Invoke(kModelViewStage, "setModelViewMapUnitToRectSnap",
               setModelViewMapUnitToRectSnap(Self, destination))

SetModelViewOffsetRect(in) ==
    \E a \in ArgsOf(in.offsets, kModelViewStage, {}) :
        Invoke(kModelViewStage, "setModelViewOffsetRect",
               setModelViewOffsetRect(Self, a[1], a[2], a[3]))

SetModelViewOffsetRectSnap(in) ==
    \E a \in ArgsOf(in.offsets, kModelViewStage, {kTransformStage, kFillStage}) :
        Invoke(kModelViewStage, "setModelViewOffsetRectSnap",
               setModelViewOffsetRectSnap(Self, a[1], a[2], a[3]))

SetRoundRectClipState(in) ==
    \E roundRectClipState \in ArgsOf(in.clips, kRoundRectClipStage, {}) :
        Invoke(kRoundRectClipStage, "setRoundRectClipState",
               setRoundRectClipState(Self, roundRectClipState))

DoBuild ==
    Invoke(Build, "build", build(Self))

MeshOps(in) ==
    \/ SetMeshUnitQuad
    \/ SetMeshTexturedUnitQuad(in)
    \/ SetMeshTexturedUvQuad(in)
    \/ SetMeshIndexedQuads
    \/ SetMeshTexturedIndexedQuads
    \/ SetMeshTexturedMesh
    \/ SetMeshColoredTexturedMesh
    \/ SetMeshVertexBuffer(in)
    \/ SetMeshPatchQuads

FillOps(in) ==
    \/ SetFillTexturePaint(in)
    \/ SetFillPaint(in)
    \/ SetFillPathTexturePaint(in)
    \/ SetFillShadowTexturePaint(in)
    \/ SetFillBlack
    \/ SetFillClear
    \/ SetFillLayer(in)
    \/ SetFillTextureLayer(in)

ModelViewOps(in) ==
    \/ SetModelViewMapUnitToRect(in)
    \/ SetModelViewMapUnitToRectSnap(in)
    \/ SetModelViewOffsetRect(in)
    \/ SetModelViewOffsetRectSnap(in)

\* The whole builder: any operation, in any order, with any explored input
Next ==
    \/ MeshOps(BuilderInputs)
    \/ FillOps(BuilderInputs)
    \/ SetTransform(BuilderInputs)
    \/ ModelViewOps(BuilderInputs)
    \/ SetRoundRectClipState(BuilderInputs)
    \/ DoBuild

Spec == Init /\ [][Next]_vars

----------------------------------------------------------------------------
(* The fill stage alone, with a wider range of fill inputs: the mesh setters, *)
(* the clip and the fill setters; no transform, model view or build.         *)

FillColors == {Color_OpaqueRed, Color_Translucent, SK_ColorWHITE}
FillModes ==
    {kClear_Mode, kSrcOver_Mode, kScreen_Mode, "kOverlay_Mode", "kLuminosity_Mode"}
FillShaders == {NULL, OpaqueGradient, BlendedBitmap}
FillColorFilters ==
    {ModeFilter, MatrixFilter, FractionalMatrixFilter, ModeAndMatrixFilter,
     UnsupportedFilter}

FillInputs ==
    [uvMappers |-> {NULL},
     vertexBuffers |-> {<<VertexBuffer({}), FALSE>>,
                        <<VertexBuffer({"kAlpha"}), TRUE>>},
     paints |->
         {Paint(c, m, s, NULL, "kLow_FilterLevel") :
              c \in FillColors, m \in FillModes, s \in FillShaders}
         \cup {Paint(Color_OpaqueRed, kSrcOver_Mode, NULL, f, "kLow_FilterLevel") :
                   f \in FillColorFilters},
     maskPaints |->
         {Paint(c, m, s, NULL, "kLow_FilterLevel") :
              c \in {Color_OpaqueRed, Color_Translucent},
              m \in {kClear_Mode, kSrcOver_Mode, "kOverlay_Mode"},
              s \in {NULL, OpaqueGradient}}
         \cup {Paint(Color_OpaqueRed, kSrcOver_Mode, NULL, UnsupportedFilter,
                     "kLow_FilterLevel")},
     texturePaints |->
         {NULL, Ptr(Paint(SK_ColorWHITE, kSrcOver_Mode, NULL, NULL,
                          "kNone_FilterLevel"))}
         \cup {Ptr(Paint(c, m, s, NULL, "kLow_FilterLevel")) :
                   c \in {Color_OpaqueRed, Color_Translucent},
                   m \in {kClear_Mode, kSrcOver_Mode, "kOverlay_Mode"},
                   s \in {NULL, OpaqueGradient}}
         \cup {Ptr(Paint(Color_OpaqueRed, kSrcOver_Mode, NULL, UnsupportedFilter,
                         "kLow_FilterLevel"))},
     alphaScales |-> {RHalf, ROne},
     textures |-> {OpaqueTexture, BlendTexture},
     textureFillFlags |-> SUBSET {kIsAlphaMaskTexture, kForceFilter},
     shadowColors |-> {SK_ColorBLACK, ARGB(128, 0, 0, 0)},
     layerFills |->
         {<<f, a, m, u>> : f \in {NULL, ModeFilter}, a \in {RHalf, ROne},
                           m \in FillModes, u \in {NoSwap, Swap}}
         \cup {<<UnsupportedFilter, ROne, kSrcOver_Mode, NoSwap>>},
     layers |->
         {Layer(t, m, NULL) :
              t \in {"GL_TEXTURE_2D", "GL_TEXTURE_EXTERNAL_OES"},
              m \in {kClear_Mode, kSrcOver_Mode, "kOverlay_Mode"}}
         \cup {Layer("GL_TEXTURE_2D", kSrcOver_Mode, UnsupportedFilter)},
     clips |-> {nullptr, "roundRectClipState"}]

FillNext ==
    \/ MeshOps(FillInputs)
    \/ FillOps(FillInputs)
    \/ SetRoundRectClipState(FillInputs)

FillSpec == Init /\ [][FillNext]_vars

----------------------------------------------------------------------------
(* The model view stage with a wider range of canvas matrices, destinations  *)
(* and offsets: two mesh setters, the fill setters with one argument each,   *)
(* the transform, the four model view operations and build.                  *)

SnapInputs ==
    [uvMappers |-> {NULL},
     paints |-> {PlainPaint(Color_OpaqueRed)},
     maskPaints |-> {PlainPaint(SK_ColorBLACK)},
     texturePaints |-> {NULL,
                        Ptr(Paint(Color_OpaqueRed, kSrcOver_Mode, NULL, NULL,
                                  "kLow_FilterLevel"))},
     alphaScales |-> {ROne},
     textures |-> {OpaqueTexture},
     textureFillFlags |-> {{}, {kForceFilter}},
     shadowColors |-> {SK_ColorBLACK},
     layerFills |-> {<<NULL, ROne, kSrcOver_Mode, NoSwap>>},
     layers |-> {Layer("GL_TEXTURE_2D", kSrcOver_Mode, NULL)},
     transforms |-> {<<Identity, FALSE>>, <<Canvas_Translate, FALSE>>,
                     <<Canvas_NegativeTranslate, TRUE>>, <<Canvas_Scale, FALSE>>},
     destinations |-> {Rect_10_10_50_30, Rect_Fractional, Rect_Negative},
     offsets |-> {<<Rat(1, 4), Rat(3, 4), Rect_Fractional>>,
                  <<Rat(-7, 4), RHalf, Rect_10_10_50_30>>,
                  <<RZero, Rat(2, 3), Rect_Negative>>}]

SnapNext ==
    \/ SetMeshUnitQuad
    \/ SetMeshTexturedUnitQuad(SnapInputs)
    \/ FillOps(SnapInputs)
    \/ SetTransform(SnapInputs)
    \/ ModelViewOps(SnapInputs)
    \/ DoBuild

SnapSpec == Init /\ [][SnapNext]_vars

----------------------------------------------------------------------------
(* Observations shared by the properties *)

MeshOpNames ==
    {"setMeshUnitQuad", "setMeshTexturedUnitQuad", "setMeshTexturedUvQuad",
     "setMeshIndexedQuads", "setMeshTexturedIndexedQuads", "setMeshTexturedMesh",
     "setMeshColoredTexturedMesh", "setMeshVertexBuffer", "setMeshPatchQuads"}
FillOpNames ==
    {"setFillTexturePaint", "setFillPaint", "setFillPathTexturePaint",
     "setFillShadowTexturePaint", "setFillBlack", "setFillClear", "setFillLayer",
     "setFillTextureLayer"}
SnapOpNames == {"setModelViewMapUnitToRectSnap", "setModelViewOffsetRectSnap"}
NoSnapOpNames == {"setModelViewMapUnitToRect", "setModelViewOffsetRect"}

\* this step is an invocation of an operation of stage s (or of build)
Invoked(s) == Len(calls'[s]) = Len(calls[s]) + 1
\* the operation this step invoked
InvokedOp(s) == calls'[s][Len(calls'[s])]
Running == fatal.msg = ""
\* build() has returned (at least once)
Built == Running /\ calls[Build] # <<>>

----------------------------------------------------------------------------
(* Properties *)

\* C1: a second invocation of any operation of a stage that has already run is
\* fatal ("Stage cannot be run twice", naming the stage), whichever variants of
\* the stage the two invocations are; and an invocation of a mesh setter on a
\* builder whose Mesh stage has not run, setMeshTexturedUnitQuad with a UV
\* mapper included, enters the stage once and is not fatal.
C1_StageRunsOnce ==
    [][ /\ \A s \in Stages :
             (Running /\ Invoked(s) /\ s \in mStageFlags)
                 => fatal' = Fatal(MsgStageTwice, <<s>>)
        /\ (Running /\ Invoked(kMeshStage) /\ kMeshStage \notin mStageFlags)
                 => /\ fatal'.msg = ""
                    /\ mStageFlags' = mStageFlags \cup {kMeshStage}
                    /\ calls'[kMeshStage] = <<InvokedOp(kMeshStage)>> ]_vars

\* C1 witness: setMeshUnitQuad then setMeshPatchQuads aborted on the second
C1_Witness ==
    /\ fatal = Fatal(MsgStageTwice, <<kMeshStage>>)
    /\ calls[kMeshStage] = <<"setMeshUnitQuad", "setMeshPatchQuads">>

\* C2: a fill setter is fatal when the Mesh stage has not run; a snapping
\* model-view operation is fatal unless Transform and Fill have both run; with
\* their prerequisites met (and their own stage not yet run) neither fails a
\* stage check; the mesh setters, setTransform, the non-snapping model-view
\* operations and setRoundRectClipState are never fatal on a stage that has not
\* run.
C2_Prerequisites ==
    [][ /\ (Running /\ Invoked(kFillStage))
             => /\ kMeshStage \notin mStageFlags => fatal'.msg # ""
                /\ (kMeshStage \in mStageFlags /\ kFillStage \notin mStageFlags)
                       => fatal'.msg \notin {MsgNotPrepared, MsgStageTwice}
                /\ (kMeshStage \notin mStageFlags /\ kFillStage \notin mStageFlags)
                       => fatal'.msg = MsgNotPrepared
        /\ (Running /\ Invoked(kModelViewStage)
                /\ InvokedOp(kModelViewStage) \in SnapOpNames)
             => /\ ~({kTransformStage, kFillStage} \subseteq mStageFlags)
                       => fatal'.msg # ""
                /\ ({kTransformStage, kFillStage} \subseteq mStageFlags
                        /\ kModelViewStage \notin mStageFlags)
                       => fatal'.msg = ""
                /\ (~({kTransformStage, kFillStage} \subseteq mStageFlags)
                        /\ kModelViewStage \notin mStageFlags)
                       => fatal'.msg = MsgNotPrepared
        /\ (Running /\ Invoked(kModelViewStage)
                /\ InvokedOp(kModelViewStage) \in NoSnapOpNames
                /\ kModelViewStage \notin mStageFlags)
             => fatal'.msg = ""
        /\ \A s \in {kMeshStage, kTransformStage, kRoundRectClipStage} :
             (Running /\ Invoked(s) /\ s \notin mStageFlags) => fatal'.msg = "" ]_vars

\* C2 witness: a snapping model-view operation aborted because Fill had not run
\* although Transform had
C2_Witness ==
    /\ fatal.msg = MsgNotPrepared
    /\ calls[kModelViewStage] = <<"setModelViewOffsetRectSnap">>
    /\ kTransformStage \in mStageFlags
    /\ kFillStage \notin mStageFlags

\* C3: build() passes its stage check exactly when Mesh, Fill, Transform and
\* ModelView have all run, with or without RoundRectClip; and a build() that
\* returns on a builder whose RoundRectClip stage never ran leaves no clip
\* reference and hasRoundRectClip false (also in the key of the program).
C3_BuildStageCheck ==
    [][ (Running /\ Invoked(Build))
            => /\ (fatal'.msg = MsgNotPrepared) <=> ~(kAllStages \subseteq mStageFlags)
               /\ fatal'.msg # MsgStageTwice
               /\ (fatal'.msg = "" /\ kRoundRectClipStage \notin mStageFlags)
                      => /\ mOutGlop'.roundRectClipState = nullptr
                         /\ ~mDescription'.hasRoundRectClip
                         /\ ~Deref(mOutGlop'.fill.program).hasRoundRectClip ]_vars

\* C3 witness: build() returned on a builder with the four required stages and
\* no clip stage
C3_Witness ==
    /\ Built
    /\ mStageFlags = kAllStages
    /\ mOutGlop.roundRectClipState = nullptr

\* C4: once build() has returned, every further operation on the builder is
\* fatal or leaves the descriptor as it is.
C4_DescriptorFrozenAfterBuild ==
    [][ Built => (fatal'.msg # "" \/ mOutGlop' = mOutGlop) ]_vars

\* the scenario of C5, before build(): unit quad, plain opaque red paint,
\* identity ortho and any explored canvas, unit square mapped to
\* (10,10)-(50,30), no clip
C5_Scenario ==
    /\ Running
    /\ calls = [NoCalls EXCEPT ![kMeshStage] = <<"setMeshUnitQuad">>,
                               ![kFillStage] = <<"setFillPaint">>,
                               ![kTransformStage] = <<"setTransform">>,
                               ![kModelViewStage] = <<"setModelViewMapUnitToRect">>]
    /\ setFillCall = Ptr(SetFillArgs(Color_OpaqueRed, ROne, kSrcOver_Mode, NoSwap,
                                     NULL, NULL))
    /\ mOutGlop.transform.ortho = Identity
    /\ modelViewCall = Ptr([destination |-> Rect_10_10_50_30])

\* C5: in that scenario, reached in any order of the four stages, build()
\* returns, the bounds are the rectangle (10,10)-(50,30) mapped by the canvas
\* matrix, the blend factors are (zero, zero) and neither hasTexture nor
\* hasExternalTexture is set.
C5_EndToEnd ==
    [][ (C5_Scenario /\ Invoked(Build))
            => /\ fatal'.msg = ""
               /\ mOutGlop'.bounds =
                      mapRect(mOutGlop.transform.canvas, Rect_10_10_50_30)
               /\ mOutGlop'.blend = Blend("GL_ZERO", "GL_ZERO")
               /\ ~mDescription'.hasTexture
               /\ ~mDescription'.hasExternalTexture
               /\ ~Deref(mOutGlop'.fill.program).hasTexture
               /\ ~Deref(mOutGlop'.fill.program).hasExternalTexture ]_vars

\* C5 witness: the scenario built under the scaling canvas (x -> 2x + 5,
\* y -> 3y + 1/2), the bounds being (25, 30.5)-(105, 90.5)
C5_Witness ==
    /\ Built
    /\ calls[kMeshStage] = <<"setMeshUnitQuad">>
    /\ calls[kFillStage] = <<"setFillPaint">>
    /\ calls[kRoundRectClipStage] = <<>>
    /\ setFillCall = Ptr(SetFillArgs(Color_OpaqueRed, ROne, kSrcOver_Mode, NoSwap,
                                     NULL, NULL))
    /\ mOutGlop.transform.canvas = Canvas_Scale
    /\ mOutGlop.bounds = Rect(RInt(25), Rat(61, 2), RInt(105), Rat(181, 2))
    /\ mOutGlop.blend = NoBlend

\* C6: a build() that passes its stage check returns only if the fill texture
\* is set exactly when the mesh has the texture-coordinate attribute, and
\* exactly when one of hasTexture / hasExternalTexture is set; a mesh with
\* texture coordinates and no fill texture, and a fill texture on a mesh without
\* texture coordinates, are fatal in the verification.
C6_TextureVerification ==
    [][ (Running /\ Invoked(Build) /\ kAllStages \subseteq mStageFlags)
            => LET textured == mOutGlop.fill.texture.texture # NULL
                   texCoord == kTextureCoord \in mOutGlop.mesh.vertices.attribFlags
               IN  /\ fatal'.msg = ""
                       => /\ textured <=> texCoord
                          /\ texCoord <=> (mDescription'.hasTexture
                                               # mDescription'.hasExternalTexture)
                   /\ (texCoord /\ ~textured) => fatal'.msg = MsgVerifyNoTexture
                   /\ (textured /\ ~texCoord) => fatal'.msg = MsgVerifyTexture ]_vars

\* C6 witness: build() aborted on a mesh with texture coordinates and no texture
C6_Witness ==
    /\ fatal.msg = MsgVerifyNoTexture
    /\ kTextureCoord \in fatal.args[3]
    /\ calls[Build] = <<"build">>

\* C7: after build(), when a non-null clip was set and the fill went through
\* setFill with mode source-over, the blend factors are those of source-over
\* (and not (zero, zero)), whether the clip was set before or after the fill.
C7_ClipForcesBlending ==
    (/\ Built
     /\ mOutGlop.roundRectClipState # nullptr
     /\ setFillCall # NULL
     /\ Deref(setFillCall).mode = kSrcOver_Mode)
        => /\ mOutGlop.blend = getFactors(kSrcOver_Mode, Deref(setFillCall).modeUsage)
           /\ mOutGlop.blend # Blend("GL_ZERO", "GL_ZERO")

\* the fill went through setFill and the process has not aborted
FillResolved == Running /\ setFillCall # NULL
\* effective alpha: (color alpha / 255) x alpha multiplier
EffectiveAlpha(args) == RMul(Rat(args.color.a, 255), args.alphaScale)

\* C8: without framebuffer fetch, setFill called with a mode above Screen and
\* swap flag s leaves the blend factors of source-over with the same swap flag,
\* and the framebuffer mode and swapSrcDst of the shader variant as constructed.
C8_BlendModeFallback ==
    (/\ FillResolved
     /\ ~hasFramebufferFetch
     /\ ModeValue(Deref(setFillCall).mode) > ModeValue(kScreen_Mode))
        => /\ mOutGlop.blend =
                  getFactors(kSrcOver_Mode, Deref(setFillCall).modeUsage)
           /\ mDescription.framebufferMode = ZeroDescription.framebufferMode
           /\ mDescription.swapSrcDst = ZeroDescription.swapSrcDst

\* C8 witness: overlay with swapped order on a runtime without framebuffer
\* fetch, resolved to the swapped source-over factors
C8_Witness ==
    /\ FillResolved
    /\ ~hasFramebufferFetch
    /\ Deref(setFillCall).mode = "kOverlay_Mode"
    /\ Deref(setFillCall).modeUsage = Swap
    /\ mOutGlop.blend = Blend("GL_ONE_MINUS_DST_ALPHA", "GL_ONE")

\* C9: whenever a fill setter resolves its fill with mode clear, the fill color
\* of the descriptor is (0,0,0,1), whatever the color, alpha multiplier and
\* shader.
C9_ClearFillColor ==
    (FillResolved /\ Deref(setFillCall).mode = kClear_Mode)
        => mOutGlop.fill.color = FloatColor(RZero, RZero, RZero, ROne)

\* C9 witness: setFillLayer with alpha 1/2 and mode clear
C9_Witness ==
    /\ FillResolved
    /\ calls[kFillStage] = <<"setFillLayer">>
    /\ Deref(setFillCall).mode = kClear_Mode
    /\ Deref(setFillCall).alphaScale = RHalf
    /\ mOutGlop.fill.color = FloatColor(RZero, RZero, RZero, ROne)

\* C10 as stated: with a shader, the fill color is (1,1,1, effective alpha) for
\* every blend mode
C10_ShaderColorAnyMode ==
    (FillResolved /\ Deref(setFillCall).shader # NULL)
        => mOutGlop.fill.color =
               FloatColor(ROne, ROne, ROne, EffectiveAlpha(Deref(setFillCall)))

\* C10 amended: with a shader and a blend mode other than clear, the fill color
\* is (1,1,1, effective alpha) for every input color; with mode clear it is
\* (0,0,0,1) also when a shader is present.
C10_ShaderColor ==
    (FillResolved /\ Deref(setFillCall).shader # NULL)
        => mOutGlop.fill.color =
               IF Deref(setFillCall).mode # kClear_Mode
               THEN FloatColor(ROne, ROne, ROne, EffectiveAlpha(Deref(setFillCall)))
               ELSE FloatColor(RZero, RZero, RZero, ROne)

\* C10 witness: a translucent color (alpha 51/255) with a shader, alpha
\* multiplier 1/2, mode overlay: the color is (1,1,1,1/10)
C10_Witness ==
    /\ FillResolved
    /\ Deref(setFillCall).shader # NULL
    /\ Deref(setFillCall).color = Color_Translucent
    /\ Deref(setFillCall).alphaScale = RHalf
    /\ Deref(setFillCall).mode = "kOverlay_Mode"
    /\ mOutGlop.fill.color = FloatColor(ROne, ROne, ROne, Rat(1, 10))

\* this step is a fill setter that returned after calling setFill
FillStep == Running /\ Invoked(kFillStage) /\ fatal'.msg = "" /\ setFillCall' # NULL
\* opaque white, alpha multiplier 1, no shader, no color filter, source-over
IsOpaqueWhiteFill(args) ==
    /\ args.color = SK_ColorWHITE
    /\ args.alphaScale = ROne
    /\ args.mode = kSrcOver_Mode
    /\ args.shader = NULL
    /\ args.colorFilter = NULL
White == FloatColor(ROne, ROne, ROne, ROne)

\* C11 as stated: an opaque white source-over fill yields fill color (1,1,1,1)
\* and blend factors (zero, zero) after every mesh setter (read here for a fill
\* without a blended texture, on a builder without a clip)
C11_OpaqueWhiteAnyMesh ==
    [][ (/\ FillStep /\ IsOpaqueWhiteFill(Deref(setFillCall'))
         /\ mOutGlop.roundRectClipState = nullptr
         /\ \/ mOutGlop'.fill.texture.texture = NULL
            \/ ~Deref(mOutGlop'.fill.texture.texture).blend)
            => /\ mOutGlop'.fill.color = White
               /\ mOutGlop'.blend = NoBlend ]_vars

\* C11 amended: an opaque white source-over fill yields fill color (1,1,1,1);
\* its blend factors are (zero, zero) when the mesh has no per-vertex alpha, the
\* fill texture (if any) is not flagged as blended and no clip has been set, and
\* the source-over factors otherwise.
C11_OpaqueWhite ==
    [][ (FillStep /\ IsOpaqueWhiteFill(Deref(setFillCall')))
            => /\ mOutGlop'.fill.color = White
               /\ mOutGlop'.blend =
                      IF \/ kAlpha \in mOutGlop.mesh.vertices.attribFlags
                         \/ (/\ mOutGlop'.fill.texture.texture # NULL
                             /\ Deref(mOutGlop'.fill.texture.texture).blend)
                         \/ mOutGlop.roundRectClipState # nullptr
                      THEN getFactors(kSrcOver_Mode, Deref(setFillCall').modeUsage)
                      ELSE NoBlend ]_vars

\* C11 witness: setFillPaint with an opaque white paint after setMeshUnitQuad,
\* no clip: color (1,1,1,1), no blending
C11_Witness ==
    /\ FillResolved
    /\ calls[kMeshStage] = <<"setMeshUnitQuad">>
    /\ calls[kFillStage] = <<"setFillPaint">>
    /\ IsOpaqueWhiteFill(Deref(setFillCall))
    /\ mOutGlop.roundRectClipState = nullptr
    /\ mOutGlop.fill.color = White
    /\ mOutGlop.blend = NoBlend

\* C12: a color filter that reports a 20-coefficient matrix m and no flat color
\* is stored as out[4r + c] = m[5r + c] and vec[r] = m[5r + 4] / 255 for
\* r, c in 0..3 (sequences here are indexed from 1), with color-op ColorMatrix in
\* the fill record and in the shader variant; a filter that also reports a flat
\* color and mode is stored as ColorBlend.
C12_ColorMatrixRepack ==
    (FillResolved /\ Deref(setFillCall).colorFilter # NULL)
        => LET f == Deref(Deref(setFillCall).colorFilter)
               filter == mOutGlop.fill.filter
           IN  /\ (f.asColorMatrix /\ ~f.asColorMode)
                      => /\ mOutGlop.fill.filterMode = kColorMatrix
                         /\ mDescription.colorOp = kColorMatrix
                         /\ \A r \in 0..3 :
                              /\ \A c \in 0..3 :
                                     filter.matrix[4 * r + c + 1]
                                         = f.matrix[5 * r + c + 1]
                              /\ filter.vector[r + 1]
                                     = RDiv(f.matrix[5 * r + 4 + 1], RInt(255))
               /\ f.asColorMode
                      => /\ mOutGlop.fill.filterMode = kColorBlend
                         /\ mDescription.colorOp = kColorBlend

\* C12 witness: the matrix 1..20 stored with rows (1,2,3,4), (6,7,8,9),
\* (11,12,13,14), (16,17,18,19) and offsets 5/255, 10/255, 15/255, 20/255
C12_Witness ==
    /\ FillResolved
    /\ Deref(setFillCall).colorFilter = MatrixFilter
    /\ mOutGlop.fill.filterMode = kColorMatrix
    /\ mOutGlop.fill.filter.matrix =
           [i \in 1..16 |-> RInt(i + ((i - 1) \div 4))]
    /\ mOutGlop.fill.filter.vector =
           <<Rat(1, 51), Rat(2, 51), Rat(1, 17), Rat(4, 51)>>

\* this step is a model view operation that returned
ModelViewStep == Running /\ Invoked(kModelViewStage) /\ fatal'.msg = ""

\* C13: when the canvas matrix is not a pure translation, a snapping model view
\* operation that passes its stage checks leaves the descriptor and the shader
\* variant exactly as the non-snapping operation with the same arguments would:
\* same model view matrix, same bounds, texture filter of the fill unchanged.
C13_SnapNoOpUnlessPureTranslate ==
    [][ (ModelViewStep /\ ~isPureTranslate(mOutGlop.transform.canvas))
            => LET a == Deref(modelViewCall')
               IN  /\ InvokedOp(kModelViewStage) = "setModelViewMapUnitToRectSnap"
                      => /\ mOutGlop' = setModelViewMapUnitToRect(
                                            Self, a.destination).mOutGlop
                         /\ mOutGlop'.fill.texture.filter
                                = mOutGlop.fill.texture.filter
                         /\ mDescription' = mDescription
                   /\ InvokedOp(kModelViewStage) = "setModelViewOffsetRectSnap"
                      => /\ mOutGlop' = setModelViewOffsetRect(
                                            Self, a.offsetX, a.offsetY,
                                            a.source).mOutGlop
                         /\ mOutGlop'.fill.texture.filter
                                = mOutGlop.fill.texture.filter
                         /\ mDescription' = mDescription ]_vars

\* C13 witness: setModelViewMapUnitToRectSnap under the scaling canvas after a
\* texture paint fill with the forced linear filter: the destination origin and
\* the linear filter are kept
C13_Witness ==
    /\ Running
    /\ calls[kModelViewStage] = <<"setModelViewMapUnitToRectSnap">>
    /\ mOutGlop.transform.canvas = Canvas_Scale
    /\ modelViewCall = Ptr([destination |-> Rect_Fractional])
    /\ mOutGlop.transform.modelView = Matrix4(RInt(2), RInt(2), RHalf, Rat(1, 4))
    /\ mOutGlop.bounds = Rect_Fractional
    /\ mOutGlop.fill.texture.filter = "GL_LINEAR"

\* n is x rounded half up: the integer with x - 1/2 < n <= x + 1/2
IsRoundHalfUp(n, x) ==
    /\ n = RInt(n[1])
    /\ RLess(RSub(x, RHalf), n)
    /\ ~RLess(RAdd(x, RHalf), n)

\* C14: after setModelViewMapUnitToRectSnap(destination) under a canvas matrix
\* that is a pure translation (tx, ty), before and after build(), the model view
\* translation (l, t) has l + tx = destination.left + tx rounded half up and
\* t + ty = destination.top + ty rounded half up, and the texture filter of the
\* fill is nearest-neighbor, whichever fill setter ran.
C14_SnapMapUnitToRect ==
    (/\ Running
     /\ calls[kModelViewStage] = <<"setModelViewMapUnitToRectSnap">>
     /\ isPureTranslate(mOutGlop.transform.canvas))
        => LET d == Deref(modelViewCall).destination
               canvas == mOutGlop.transform.canvas
               modelView == mOutGlop.transform.modelView
           IN  /\ IsRoundHalfUp(RAdd(modelView.tx, canvas.tx),
                                RAdd(d.left, canvas.tx))
               /\ IsRoundHalfUp(RAdd(modelView.ty, canvas.ty),
                                RAdd(d.top, canvas.ty))
               /\ mOutGlop.fill.texture.filter = "GL_NEAREST"

\* C14 witness: destination origin (-7/4, -1/4) under the canvas translation
\* (1/4, 3/4), both sums exactly halfway (-3/2 and 1/2), rounded up to -1 and 1:
\* model view translation (-5/4, 1/4); texture paint fill; built
C14_Witness ==
    /\ Built
    /\ calls[kFillStage] = <<"setFillTexturePaint">>
    /\ calls[kModelViewStage] = <<"setModelViewMapUnitToRectSnap">>
    /\ mOutGlop.transform.canvas = Canvas_Translate
    /\ modelViewCall = Ptr([destination |-> Rect_Negative])
    /\ mOutGlop.transform.modelView.tx = Rat(-5, 4)
    /\ mOutGlop.transform.modelView.ty = Rat(1, 4)
    /\ mOutGlop.fill.texture.filter = "GL_NEAREST"

\* C15: a fill setter that returns after calling setFill was given no color
\* filter or one that reports a flat color and mode or a matrix, so a filter of
\* neither shape aborts it; with its stage checks passed a fill setter aborts
\* for no other reason; and without a color filter the color-op of the fill
\* record is None and that of the shader variant is left as constructed.
C15_UnsupportedColorFilter ==
    [][ (Running /\ Invoked(kFillStage))
            => /\ (fatal'.msg = "" /\ setFillCall' # NULL)
                      => LET f == Deref(setFillCall').colorFilter
                         IN  /\ f # NULL => \/ Deref(f).asColorMode
                                            \/ Deref(f).asColorMatrix
                             /\ f = NULL
                                    => /\ mOutGlop'.fill.filterMode = kColorNone
                                       /\ mDescription'.colorOp = mDescription.colorOp
               /\ (/\ kMeshStage \in mStageFlags
                   /\ kFillStage \notin mStageFlags
                   /\ fatal'.msg # "")
                      => fatal'.msg = MsgUnsupportedColorFilter ]_vars

\* C15 witness: setFillTextureLayer aborted on the color filter of its layer
C15_Witness ==
    /\ fatal.msg = MsgUnsupportedColorFilter
    /\ calls[kFillStage] = <<"setFillTextureLayer">>

\* x lies in [0,1]
InUnitInterval(x) == ~RLess(x, RZero) /\ ~RLess(ROne, x)

\* C16 as stated: without a shader and with a mode other than clear, each stored
\* RGB channel is (channel / 255) x (effective alpha / 255) and the stored alpha
\* is the effective alpha
C16_PremultiplyDividedTwice ==
    (FillResolved /\ Deref(setFillCall).shader = NULL
                  /\ Deref(setFillCall).mode # kClear_Mode)
        => LET args == Deref(setFillCall)
               alpha == EffectiveAlpha(args)
               scaled(channel) ==
                   RMul(Rat(channel, 255), RDiv(alpha, RInt(255)))
           IN  mOutGlop.fill.color =
                   FloatColor(scaled(args.color.r), scaled(args.color.g),
                              scaled(args.color.b), alpha)

\* C16 amended: without a shader and with a mode other than clear, each stored
\* RGB channel is (channel / 255) x effective alpha (the channel times
\* effective alpha / 255) and the stored alpha is the effective alpha, where
\* effective alpha = (color alpha / 255) x alpha multiplier; with the alpha
\* multiplier in [0,1] all four stored channels lie in [0,1].
C16_Premultiply ==
    (FillResolved /\ Deref(setFillCall).shader = NULL
                  /\ Deref(setFillCall).mode # kClear_Mode)
        => LET args == Deref(setFillCall)
               alpha == EffectiveAlpha(args)
               scaled(channel) == RMul(Rat(channel, 255), alpha)
               color == mOutGlop.fill.color
           IN  /\ color = FloatColor(scaled(args.color.r), scaled(args.color.g),
                                     scaled(args.color.b), alpha)
               /\ InUnitInterval(args.alphaScale)
                      => /\ InUnitInterval(color.r) /\ InUnitInterval(color.g)
                         /\ InUnitInterval(color.b) /\ InUnitInterval(color.a)

\* C16 witness: color (51, 10, 20, 30) with alpha multiplier 1/2, no shader,
\* source-over: effective alpha 1/10, stored (1/255, 2/255, 3/255, 1/10)
C16_Witness ==
    /\ FillResolved
    /\ Deref(setFillCall).color = Color_Translucent
    /\ Deref(setFillCall).alphaScale = RHalf
    /\ Deref(setFillCall).shader = NULL
    /\ Deref(setFillCall).mode = kSrcOver_Mode
    /\ mOutGlop.fill.color =
           FloatColor(Rat(1, 255), Rat(2, 255), Rat(3, 255), Rat(1, 10))

\* C17: the Fill stage never runs before the Mesh stage; and once a fill setter
\* has returned on a mesh with the per-vertex alpha attribute
\* (setMeshVertexBuffer with the alpha feature flag), up to and after build(),
\* the blend factors are those the table gives for the mode and swap flag, and
\* not (zero, zero), whenever the mode is at or below Screen (source-over for a
\* texture paint fill without a paint), also for an opaque fill.
C17_VertexAlphaForcesBlending ==
    /\ (Running /\ kFillStage \in mStageFlags) => kMeshStage \in mStageFlags
    /\ (/\ Running
        /\ calls[kFillStage] # <<>>
        /\ kAlpha \in mOutGlop.mesh.vertices.attribFlags)
           => /\ calls[kMeshStage] = <<"setMeshVertexBuffer">>
              /\ IF setFillCall = NULL
                 THEN /\ mOutGlop.blend = getFactors(kSrcOver_Mode, NoSwap)
                      /\ mOutGlop.blend # Blend("GL_ZERO", "GL_ZERO")
                 ELSE LET args == Deref(setFillCall)
                      IN  ModeValue(args.mode) <= ModeValue(kScreen_Mode)
                              => /\ mOutGlop.blend
                                       = getFactors(args.mode, args.modeUsage)
                                 /\ mOutGlop.blend # Blend("GL_ZERO", "GL_ZERO")

\* C17 witness: built from an alpha vertex buffer and an opaque red source-over
\* paint: the blend factors are those of source-over
C17_Witness ==
    /\ Built
    /\ calls[kMeshStage] = <<"setMeshVertexBuffer">>
    /\ kAlpha \in mOutGlop.mesh.vertices.attribFlags
    /\ calls[kFillStage] = <<"setFillPaint">>
    /\ setFillCall = Ptr(SetFillArgs(Color_OpaqueRed, ROne, kSrcOver_Mode, NoSwap,
                                     NULL, NULL))
    /\ mOutGlop.blend = Blend("GL_ONE", "GL_ONE_MINUS_SRC_ALPHA")

\* C18: a fill setter that returns after calling setFill with a mode above
\* Screen, on a runtime with framebuffer fetch, has recorded the mode as the
\* framebuffer mode of the shader variant and swapSrcDst = (swap flag is Swap),
\* and left the blend factors (zero, zero); with a mode at or below Screen the
\* framebuffer mode and swapSrcDst are as they were before the call.
C18_ShaderSideBlending ==
    [][ FillStep
            => LET args == Deref(setFillCall')
               IN  /\ (/\ hasFramebufferFetch
                       /\ ModeValue(args.mode) > ModeValue(kScreen_Mode))
                          => /\ mDescription'.framebufferMode = args.mode
                             /\ mDescription'.swapSrcDst = (args.modeUsage = Swap)
                             /\ mOutGlop'.blend = Blend("GL_ZERO", "GL_ZERO")
                   /\ ModeValue(args.mode) <= ModeValue(kScreen_Mode)
                          => /\ mDescription'.framebufferMode
                                   = mDescription.framebufferMode
                             /\ mDescription'.swapSrcDst = mDescription.swapSrcDst
       ]_vars

\* C18 witness: setFillLayer with mode overlay and swapped order on a runtime
\* with framebuffer fetch
C18_Witness ==
    /\ FillResolved
    /\ hasFramebufferFetch
    /\ calls[kFillStage] = <<"setFillLayer">>
    /\ Deref(setFillCall).mode = "kOverlay_Mode"
    /\ Deref(setFillCall).modeUsage = Swap
    /\ mDescription.framebufferMode = "kOverlay_Mode"
    /\ mDescription.swapSrcDst
    /\ mOutGlop.blend = Blend("GL_ZERO", "GL_ZERO")

\* a state in which a fill setter passes its stage checks
FillCanRun == Running /\ kMeshStage \in mStageFlags /\ kFillStage \notin mStageFlags
\* the explored arguments of setFillTexturePaint that carry a paint
TexturePaintArgs ==
    {a \in FillInputs.textures \X FillInputs.textureFillFlags
             \X FillInputs.texturePaints \X FillInputs.alphaScales : a[3] # NULL}
\* the arguments setFillTexturePaint hands to setFill from the current state
HandedToSetFill(a) ==
    Deref(setFillTexturePaint(Self, a[1], a[2], a[3], a[4]).setFillCall)

\* C19 as stated: with a paint and a texture that is not an alpha mask,
\* setFillTexturePaint hands the color 0xFFFFFFFF and no shader to setFill
C19_TexturePaintOpaqueWhite ==
    FillCanRun
        => \A a \in TexturePaintArgs :
               ~Aborted(setFillTexturePaint(Self, a[1], a[2], a[3], a[4]))
                   => (kIsAlphaMaskTexture \notin a[2]
                          => /\ HandedToSetFill(a).color = SK_ColorWHITE
                             /\ HandedToSetFill(a).shader = NULL)

\* C19 amended: with a paint and a texture that is not an alpha mask,
\* setFillTexturePaint hands to setFill the paint's color with red, green and
\* blue set to 255 and the alpha of the paint kept, and no shader; with an alpha
\* mask texture it hands on the paint's own color and shader.
C19_TexturePaintColorMask ==
    FillCanRun
        => \A a \in TexturePaintArgs :
               ~Aborted(setFillTexturePaint(Self, a[1], a[2], a[3], a[4]))
                   => LET paint == Deref(a[3])
                          args == HandedToSetFill(a)
                      IN  IF kIsAlphaMaskTexture \in a[2]
                          THEN /\ args.color = paint.color
                               /\ args.shader = paint.shader
                          ELSE /\ args.color
                                     = ARGB(SkColorGetA(paint.color), 255, 255, 255)
                               /\ args.shader = NULL

\* C19 witness: setFillTexturePaint has run with the translucent paint color
\* (alpha 51) and a gradient shader on a texture that is not an alpha mask:
\* setFill received (51, 255, 255, 255) and no shader
C19_Witness ==
    /\ FillResolved
    /\ calls[kFillStage] = <<"setFillTexturePaint">>
    /\ ~mDescription.hasAlpha8Texture
    /\ Deref(setFillCall).color = ARGB(51, 255, 255, 255)
    /\ Deref(setFillCall).shader = NULL
    /\ mShader = NULL

\* the state follows setModelViewOffsetRectSnap under a pure translation
OffsetRectSnapped ==
    /\ Running
    /\ calls[kModelViewStage] = <<"setModelViewOffsetRectSnap">>
    /\ isPureTranslate(mOutGlop.transform.canvas)

\* C20 as stated: after setModelViewOffsetRectSnap(offsetX, offsetY, source)
\* under a pure translation (tx, ty), the model view translation (ox, oy) has
\* ox + tx = offsetX + tx rounded half up and oy + ty = offsetY + ty rounded
\* half up, for every source rectangle
C20_OffsetSnapWithoutSource ==
    OffsetRectSnapped
        => LET a == Deref(modelViewCall)
               canvas == mOutGlop.transform.canvas
               modelView == mOutGlop.transform.modelView
           IN  /\ IsRoundHalfUp(RAdd(modelView.tx, canvas.tx),
                                RAdd(a.offsetX, canvas.tx))
               /\ IsRoundHalfUp(RAdd(modelView.ty, canvas.ty),
                                RAdd(a.offsetY, canvas.ty))

\* C20 amended: after setModelViewOffsetRectSnap(offsetX, offsetY, source)
\* under a canvas matrix that is a pure translation (tx, ty), before and after
\* build(), the model view translation (ox, oy) has
\* ox + tx + source.left = offsetX + tx + source.left rounded half up and
\* oy + ty + source.top = offsetY + ty + source.top rounded half up, and the
\* model view matrix is that translation alone; until build(), which maps the
\* bounds through the canvas matrix, the bounds are the source rectangle
\* translated by (ox, oy).
C20_OffsetSnapOfSourceOrigin ==
    OffsetRectSnapped
        => LET a == Deref(modelViewCall)
               canvas == mOutGlop.transform.canvas
               modelView == mOutGlop.transform.modelView
           IN  /\ IsRoundHalfUp(
                      RAdd(RAdd(modelView.tx, canvas.tx), a.source.left),
                      RAdd(RAdd(a.offsetX, canvas.tx), a.source.left))
               /\ IsRoundHalfUp(
                      RAdd(RAdd(modelView.ty, canvas.ty), a.source.top),
                      RAdd(RAdd(a.offsetY, canvas.ty), a.source.top))
               /\ modelView = loadTranslate(modelView.tx, modelView.ty)
               /\ ~Built => mOutGlop.bounds = translate(a.source, modelView.tx,
                                                        modelView.ty)

\* C20 witness: offset (1/4, 3/4) and the fractional source rectangle under the
\* canvas translation (1/4, 3/4): the model view translation is (1/4, 1), so
\* ox + tx = 1/2 is no integer while ox + tx + source.left = 1 is; the bounds
\* are the source rectangle moved by (1/4, 1); build() not yet called
C20_Witness ==
    /\ Running /\ ~Built
    /\ calls[kModelViewStage] = <<"setModelViewOffsetRectSnap">>
    /\ mOutGlop.transform.canvas = Canvas_Translate
    /\ modelViewCall = Ptr([offsetX |-> Rat(1, 4), offsetY |-> Rat(3, 4),
                            source |-> Rect_Fractional])
    /\ mOutGlop.transform.modelView.tx = Rat(1, 4)
    /\ mOutGlop.transform.modelView.ty = ROne
    /\ mOutGlop.bounds = translate(Rect_Fractional, Rat(1, 4), ROne)

\* C21: the stage flags only grow. In every reachable state they are a subset
\* of {Mesh, Fill, Transform, ModelView, RoundRectClip}; in every state that is
\* not fatal Fill implies Mesh, and a ModelView stage entered by a snapping
\* operation implies Transform and Fill; every stage operation that returns
\* adds its own stage, which was absent, and changes no other; and build(),
\* returning or not, leaves the flags as they were.
C21_StageFlagsMonotone ==
    /\ [](/\ mStageFlags \subseteq Stages
          /\ Running
                => /\ (kFillStage \in mStageFlags => kMeshStage \in mStageFlags)
                   /\ ((/\ calls[kModelViewStage] # <<>>
                        /\ calls[kModelViewStage][1] \in SnapOpNames)
                           => {kTransformStage, kFillStage} \subseteq mStageFlags))
    /\ [][ /\ \A s \in Stages :
                 ((Running /\ Invoked(s) /\ fatal'.msg = "")
                     => /\ s \notin mStageFlags
                        /\ mStageFlags' = mStageFlags \cup {s})
            /\ ((Running /\ Invoked(Build)) => mStageFlags' = mStageFlags)
            /\ ((Running /\ fatal'.msg = "") => mStageFlags \subseteq mStageFlags')
          ]_vars

\* C21 witness: all five stages entered one by one, the model view by a snapping
\* operation, and build() returned with the five flags still set
C21_Witness ==
    /\ Built
    /\ mStageFlags = Stages
    /\ calls[kModelViewStage] = <<"setModelViewMapUnitToRectSnap">>
    /\ calls[kRoundRectClipStage] = <<"setRoundRectClipState">>

\* C22: in every state that is not fatal and whose Fill stage has run, before
\* and after build(), hasTextureTransform of the shader variant is true exactly
\* when the texture of the fill carries a texture transform, and both exactly
\* when the fill setter was setFillTextureLayer; and no state is fatal with the
\* texture transform diagnostic of verify.
C22_TextureTransformAgreement ==
    /\ (Running /\ kFillStage \in mStageFlags)
           => /\ mDescription.hasTextureTransform
                     = (mOutGlop.fill.texture.textureTransform # nullptr)
              /\ mDescription.hasTextureTransform
                     = (calls[kFillStage] = <<"setFillTextureLayer">>)
    /\ fatal.msg # MsgVerifyTextureTransform

\* C22 witness: build() returned after setFillTextureLayer, with the flag set
\* and the layer's transform attached
C22_Witness ==
    /\ Built
    /\ calls[kFillStage] = <<"setFillTextureLayer">>
    /\ mDescription.hasTextureTransform
    /\ mOutGlop.fill.texture.textureTransform = "layer.texTransform"
    /\ Deref(mOutGlop.fill.program).hasTextureTransform

\* C23: in every state that is not fatal and whose Mesh stage has run, before
\* and after build(), a mesh with the per-vertex alpha attribute was set by
\* setMeshVertexBuffer and has no vertex buffer object, and a mesh set by any
\* other mesh setter has no alpha attribute; and no state is fatal with the
\* buffer-object-with-alpha diagnostic of verify.
C23_AlphaMeshHasNoBufferObject ==
    /\ (Running /\ kMeshStage \in mStageFlags)
           => /\ kAlpha \in mOutGlop.mesh.vertices.attribFlags
                     => /\ mOutGlop.mesh.vertices.bufferObject = NoBuffer
                        /\ calls[kMeshStage] = <<"setMeshVertexBuffer">>
              /\ mOutGlop.mesh.vertices.bufferObject # NoBuffer
                     => /\ kAlpha \notin mOutGlop.mesh.vertices.attribFlags
                        /\ calls[kMeshStage] # <<"setMeshVertexBuffer">>
    /\ fatal.msg # MsgVerifyVboAlpha

\* C23 witness: build() returned on a mesh set by setMeshVertexBuffer from a
\* buffer with the alpha feature: alpha attribute, raw vertex pointer, no buffer
\* object, and the vertex alpha flag of the shader variant set
C23_Witness ==
    /\ Built
    /\ calls[kMeshStage] = <<"setMeshVertexBuffer">>
    /\ mOutGlop.mesh.vertices.attribFlags = {kAlpha}
    /\ mOutGlop.mesh.vertices.bufferObject = NoBuffer
    /\ mOutGlop.mesh.vertices.position = "vertexBuffer.buffer"
    /\ mDescription.hasVertexAlpha

====
